---- MODULE Spec2Model ----
(***************************************************************************)
(* Model of the SQL tool layer of main.py (identifier / type validators,   *)
(* predicate builder, query builders, db_cursor, the dispatcher step of    *)
(* handle_user_message) and of the web entry point ChatView.post.          *)
(*                                                                         *)
(* Encoding of Python values: a record tagged by field t.                  *)
(*   None  [t |-> "none"]            int   [t |-> "int",  v |-> n]         *)
(*   bool  [t |-> "bool", v |-> b]   str   [t |-> "str",  v |-> chars]     *)
(*   list  [t |-> "list", v |-> seq] dict  [t |-> "dict", v |-> pairs]     *)
(*   json  [t |-> "json", v |-> x]   a str holding the JSON text of x      *)
(* A str is the sequence of its characters (one-character strings; a       *)
(* non-ASCII character is written by its code point, "U+0131").  A dict is *)
(* the sequence of its <<key, value>> pairs in insertion order.            *)
(***************************************************************************)
EXTENDS Integers, Sequences, FiniteSets, TLC

VARIABLES
    committed,    \* database: the durable state, table name -> table
    working,      \* database: the state seen inside db_connection's transaction
    conn_status,  \* db_connection's transaction status: READY, INTRANS, INERROR
    open_cursors, \* number of cursors of db_connection not yet closed
    request,      \* the function call the language model returned (name, content)
    executed,     \* statements cursor.execute() sent during the last invocation
    tool_result,  \* the envelope built by handle_user_message
    escaped,      \* TRUE when an exception left the try block of handle_user_message
    pc,           \* web layer: per request, the position inside ChatView.post
    local,        \* web layer: per request, the locals of the running invocation
    log,          \* web layer: what each commit / rollback did, per request
    arg,          \* argument of the function under test (function-level specs)
    ret           \* its result

vars == <<committed, working, conn_status, open_cursors, request, executed,
          tool_result, escaped, pc, local, log, arg, ret>>

-----------------------------------------------------------------------------
(* Bounds *)

MaxNameLen == 3
MaxFragLen == 2
MaxWhereKeys == 2
MaxRows == 2

-----------------------------------------------------------------------------
(* Python values *)

None == [t |-> "none"]
Num(n) == [t |-> "int", v |-> n]
Bool(b) == [t |-> "bool", v |-> b]
Str(s) == [t |-> "str", v |-> s]
List(xs) == [t |-> "list", v |-> xs]
Dict(ps) == [t |-> "dict", v |-> ps]
Json(x) == [t |-> "json", v |-> x]

\* Python truth value: bool(x)
Truthy(x) ==
    CASE x.t = "none" -> FALSE
      [] x.t = "int"  -> x.v # 0
      [] x.t = "bool" -> x.v
      [] OTHER        -> x.v # <<>>

Range(s) == {s[i] : i \in 1..Len(s)}

\* k in d
HasKey(d, k) == \E i \in 1..Len(d.v) : d.v[i][1] = k

\* d[k], for a key that is present
Item(d, k) == d.v[CHOOSE i \in 1..Len(d.v) : d.v[i][1] = k][2]

\* d.get(k, default)
Get(d, k, default) == IF HasKey(d, k) THEN Item(d, k) ELSE default

Keys(d) == [i \in 1..Len(d.v) |-> d.v[i][1]]
Values(d) == [i \in 1..Len(d.v) |-> d.v[i][2]]

\* raise exc(msg): the result of a call that did not return
Raise(exc, msg, a) == [ok |-> FALSE, exc |-> exc, msg |-> msg, arg |-> a]
Return(x) == [ok |-> TRUE, val |-> x]

-----------------------------------------------------------------------------
(* Characters and the two regular expressions *)

LowerAZ == <<"a","b","c","d","e","f","g","h","i","j","k","l","m",
             "n","o","p","q","r","s","t","u","v","w","x","y","z">>
UpperAZ == <<"A","B","C","D","E","F","G","H","I","J","K","L","M",
             "N","O","P","Q","R","S","T","U","V","W","X","Y","Z">>
Digits == {"0","1","2","3","4","5","6","7","8","9"}

\* Python 3 \s on str: Unicode white space
Whitespace == {" ", "\t", "\n", "\r", "U+00A0"}

\* [A-Za-z_] and [A-Za-z0-9_]
IdentStart == Range(LowerAZ) \cup Range(UpperAZ) \cup {"_"}
IdentBody == IdentStart \cup Digits

\* [A-Z0-9_(),\s]
TypeClass == Range(UpperAZ) \cup Digits \cup {"_", "(", ")", ","} \cup Whitespace

\* Python's $ without re.MULTILINE: the end of the string, or just before a
\* newline that is the last character.  i is the position of the next character.
AtDollar(s, i) == i = Len(s) + 1 \/ (i = Len(s) /\ s[i] = "\n")

\* _IDENTIFIER_RE.match(s) is not None
IdentifierReMatch(s) ==
    /\ Len(s) >= 1
    /\ s[1] \in IdentStart
    /\ \E n \in 1..Len(s) :
          /\ \A j \in 2..n : s[j] \in IdentBody
          /\ AtDollar(s, n + 1)

\* _TYPE_RE.match(s) is not None
TypeReMatch(s) ==
    \E n \in 1..Len(s) :
       /\ \A j \in 1..n : s[j] \in TypeClass
       /\ AtDollar(s, n + 1)

\* str.upper(), character by character; the result of one character may be
\* longer than one character
UpperChar(c) ==
    IF \E i \in 1..26 : LowerAZ[i] = c
    THEN <<UpperAZ[CHOOSE i \in 1..26 : LowerAZ[i] = c]>>
    ELSE CASE c = "U+0131" -> <<"I">>          \* dotless i
           [] c = "U+00DF" -> <<"S", "S">>     \* sharp s
           [] c = "U+00E9" -> <<"U+00C9">>     \* e acute
           [] OTHER        -> <<c>>

RECURSIVE Upper(_)
Upper(s) == IF s = <<>> THEN <<>> ELSE UpperChar(Head(s)) \o Upper(Tail(s))

-----------------------------------------------------------------------------
(* psycopg2.sql composables: a query is the flat sequence of its parts *)

SQL(s) == [k |-> "SQL", s |-> s]               \* sql.SQL of a literal of main.py
RawSQL(chars) == [k |-> "RawSQL", chars |-> chars]  \* sql.SQL of a payload str
Identifier(name) == [k |-> "Identifier", name |-> name]
Placeholder == [k |-> "Placeholder"]
Literal(x) == [k |-> "Literal", v |-> x]       \* sql.Literal of a Python value

\* sql.SQL(sep).join(parts), each part itself a sequence of composables
RECURSIVE Join(_, _)
Join(sep, parts) ==
    IF parts = <<>> THEN <<>>
    ELSE IF Len(parts) = 1 THEN parts[1]
    ELSE parts[1] \o <<SQL(sep)>> \o Join(sep, Tail(parts))

-----------------------------------------------------------------------------
(* json.loads on a str: the scanner of json/decoder.py and json/scanner.py. *)
(* Positions are 1-based; a scan yields the value and the position after   *)
(* it, or NoValue where the decoder raises JSONDecodeError.  Modelled are   *)
(* null, true, false, integers, strings (with the escapes of one           *)
(* character), arrays and objects; texts with a fraction, an exponent, a    *)
(* \u escape, NaN or Infinity are not among the texts of this model.        *)

\* json.decoder.WHITESPACE: [ \t\n\r]*
JsonWhitespace == {" ", "\t", "\n", "\r"}

RECURSIVE SkipWhitespace(_, _)
SkipWhitespace(s, i) ==
    IF i <= Len(s) /\ s[i] \in JsonWhitespace THEN SkipWhitespace(s, i + 1) ELSE i

\* s[i:i+1], the empty string past the end
CharAt(s, i) == IF i <= Len(s) THEN s[i] ELSE ""

\* s[i:i+len(w)] == w
StartsWith(s, i, w) ==
    /\ i + Len(w) - 1 <= Len(s)
    /\ SubSeq(s, i, i + Len(w) - 1) = w

NoValue == [ok |-> FALSE]
Decoded(val, end) == [ok |-> TRUE, val |-> val, end |-> end]

\* the characters a backslash may be followed by, and what they stand for
Unescaped(c) ==
    CASE c = "\"" -> "\""
      [] c = "\\" -> "\\"
      [] c = "/"  -> "/"
      [] c = "n"  -> "\n"
      [] c = "r"  -> "\r"
      [] c = "t"  -> "\t"
      [] c = "f"  -> "\f"
      [] c = "b"  -> "U+0008"

\* py_scanstring, strict: i is the position after the opening quote
RECURSIVE scanstring(_, _, _)
scanstring(s, i, chunks) ==
    IF i > Len(s) THEN NoValue
    ELSE IF s[i] = "\"" THEN Decoded(Str(chunks), i + 1)
    ELSE IF s[i] = "\\"
         THEN IF CharAt(s, i + 1) \in {"\"", "\\", "/", "n", "r", "t", "f", "b"}
              THEN scanstring(s, i + 2, Append(chunks, Unescaped(s[i + 1])))
              ELSE NoValue
    ELSE IF s[i] \in {"\n", "\r", "\t", "\f"} THEN NoValue
    ELSE scanstring(s, i + 1, Append(chunks, s[i]))

DigitValue(c) ==
    CASE c = "0" -> 0 [] c = "1" -> 1 [] c = "2" -> 2 [] c = "3" -> 3 [] c = "4" -> 4
      [] c = "5" -> 5 [] c = "6" -> 6 [] c = "7" -> 7 [] c = "8" -> 8 [] c = "9" -> 9

RECURSIVE DigitsEnd(_, _)
DigitsEnd(s, i) == IF CharAt(s, i) \in Digits THEN DigitsEnd(s, i + 1) ELSE i

\* int(s[from:to]) of decimal digits
RECURSIVE IntOf(_, _, _)
IntOf(s, from, to) ==
    IF from >= to THEN 0 ELSE IntOf(s, from, to - 1) * 10 + DigitValue(s[to - 1])

\* NUMBER_RE.match(s, i) for (-?(?:0|[1-9]\d*)): the position after the
\* match, 0 when there is none
NumberEnd(s, i) ==
    IF CharAt(s, i) = "0" THEN i + 1
    ELSE IF CharAt(s, i) \in Digits THEN DigitsEnd(s, i + 1)
    ELSE 0

\* dict(pairs): a key met again keeps its place and takes the later value
RECURSIVE DictOfPairs(_, _)
DictOfPairs(pairs, acc) ==
    IF pairs = <<>> THEN Dict(acc)
    ELSE IF \E i \in 1..Len(acc) : acc[i][1] = Head(pairs)[1]
         THEN DictOfPairs(Tail(pairs),
                          [i \in 1..Len(acc) |->
                              IF acc[i][1] = Head(pairs)[1] THEN Head(pairs) ELSE acc[i]])
    ELSE DictOfPairs(Tail(pairs), Append(acc, Head(pairs)))

RECURSIVE scan_once(_, _), ArrayValues(_, _, _), ObjectPairs(_, _, _)

\* JSONArray after a value: ] ends the array, a comma brings the next value
ArrayDelimiter(s, j, values) ==
    IF CharAt(s, j) = "]" THEN Decoded(List(values), j + 1)
    ELSE IF CharAt(s, j) = "," THEN ArrayValues(s, SkipWhitespace(s, j + 1), values)
    ELSE NoValue

ArrayAfterValue(s, r, values) ==
    IF ~r.ok THEN NoValue
    ELSE ArrayDelimiter(s, SkipWhitespace(s, r.end), Append(values, r.val))

ArrayValues(s, i, values) == ArrayAfterValue(s, scan_once(s, i), values)

ArrayFirst(s, j) ==
    IF CharAt(s, j) = "]" THEN Decoded(List(<<>>), j + 1) ELSE ArrayValues(s, j, <<>>)

\* JSONArray: i is the position after the opening bracket
JSONArray(s, i) == ArrayFirst(s, SkipWhitespace(s, i))

\* JSONObject after a value: } ends the object, a comma brings the next key
ObjectDelimiter(s, j, pairs) ==
    IF CharAt(s, j) = "}" THEN Decoded(DictOfPairs(pairs, <<>>), j + 1)
    ELSE IF CharAt(s, j) = "," THEN ObjectPairs(s, SkipWhitespace(s, j + 1), pairs)
    ELSE NoValue

ObjectAfterValue(s, key, r, pairs) ==
    IF ~r.ok THEN NoValue
    ELSE ObjectDelimiter(s, SkipWhitespace(s, r.end), Append(pairs, <<key, r.val>>))

ObjectColon(s, key, j, pairs) ==
    IF CharAt(s, j) # ":" THEN NoValue
    ELSE ObjectAfterValue(s, key, scan_once(s, SkipWhitespace(s, j + 1)), pairs)

ObjectAfterKey(s, k, pairs) ==
    IF ~k.ok THEN NoValue ELSE ObjectColon(s, k.val, SkipWhitespace(s, k.end), pairs)

\* a property name enclosed in double quotes is expected at i
ObjectPairs(s, i, pairs) ==
    IF CharAt(s, i) # "\"" THEN NoValue
    ELSE ObjectAfterKey(s, scanstring(s, i + 1, <<>>), pairs)

ObjectFirst(s, j) ==
    IF CharAt(s, j) = "}" THEN Decoded(Dict(<<>>), j + 1) ELSE ObjectPairs(s, j, <<>>)

\* JSONObject: i is the position after the opening brace
JSONObject(s, i) == ObjectFirst(s, SkipWhitespace(s, i))

NumberAt(s, from, end) ==
    IF end = 0 THEN NoValue ELSE Decoded(Num(IntOf(s, from, end)), end)

NegativeNumberAt(s, from, end) ==
    IF end = 0 THEN NoValue ELSE Decoded(Num(0 - IntOf(s, from, end)), end)

\* py_make_scanner's _scan_once
scan_once(s, i) ==
    IF i > Len(s) THEN NoValue
    ELSE IF s[i] = "\"" THEN scanstring(s, i + 1, <<>>)
    ELSE IF s[i] = "{" THEN JSONObject(s, i + 1)
    ELSE IF s[i] = "[" THEN JSONArray(s, i + 1)
    ELSE IF s[i] = "n" /\ StartsWith(s, i, <<"n","u","l","l">>) THEN Decoded(None, i + 4)
    ELSE IF s[i] = "t" /\ StartsWith(s, i, <<"t","r","u","e">>)
         THEN Decoded(Bool(TRUE), i + 4)
    ELSE IF s[i] = "f" /\ StartsWith(s, i, <<"f","a","l","s","e">>)
         THEN Decoded(Bool(FALSE), i + 5)
    ELSE IF s[i] = "-" THEN NegativeNumberAt(s, i + 1, NumberEnd(s, i + 1))
    ELSE NumberAt(s, i, NumberEnd(s, i))

\* a decode that stops at the end of the first value
DecodeEnd_ignoring_extra_data(s, r) ==
    IF r.ok THEN Return(r.val)
    ELSE Raise("JSONDecodeError", "Expecting value", None)

\* JSONDecoder.decode: the value, white space around it, and nothing else
DecodeEnd(s, r) ==
    IF r.ok /\ SkipWhitespace(s, r.end) = Len(s) + 1
    THEN Return(r.val)
    ELSE Raise("JSONDecodeError", "Expecting value / Extra data", None)

json_loads(s) == DecodeEnd(s, scan_once(s, SkipWhitespace(s, 1)))

\* _parse after json.loads returned or raised
ParsedData(data) ==
    IF ~data.ok THEN data
    ELSE IF data.val.t # "dict"
         THEN Raise("ValueError", "content bir JSON obje olmali.", None)
    ELSE data

-----------------------------------------------------------------------------
(* _ident, _parse, _build_where_simple *)

_ident(name) ==
    IF ~(name.t = "str") \/ ~IdentifierReMatch(name.v)
    THEN Raise("ValueError", "Gecersiz isim", name)
    ELSE Return(Identifier(name.v))

_parse(content) ==
    IF content.t = "none" \/ (content.t = "str" /\ content.v = <<>>)
    THEN Raise("ValueError", "content bos. JSON string bekleniyor.", None)
    ELSE IF content.t \in {"dict", "list"} THEN Return(content)
    ELSE IF content.t = "json"
         THEN IF content.v.t # "dict"
              THEN Raise("ValueError", "content bir JSON obje olmali.", None)
              ELSE Return(content.v)
    ELSE IF content.t = "str" THEN ParsedData(json_loads(content.v))
    ELSE Raise("TypeError", "the JSON object must be str, bytes or bytearray", None)

\* one pass of the loop of _build_where_simple over where.items()
where_clause(key, val) ==
    LET col == _ident(key) IN
    IF ~col.ok THEN col
    ELSE IF val.t = "none"
         THEN Return([sql |-> <<col.val, SQL(" IS NULL")>>, params |-> <<>>])
    ELSE IF val.t = "list"
         THEN IF val.v = <<>>
              THEN Return([sql |-> <<SQL("FALSE")>>, params |-> <<>>])
              ELSE Return([sql |-> <<col.val, SQL(" IN (")>>
                                   \o Join(", ", [i \in 1..Len(val.v) |-> <<Placeholder>>])
                                   \o <<SQL(")")>>,
                           params |-> val.v])
    ELSE Return([sql |-> <<col.val, SQL(" = "), Placeholder>>, params |-> <<val>>])

RECURSIVE Concat(_)
Concat(seqs) == IF seqs = <<>> THEN <<>> ELSE Head(seqs) \o Concat(Tail(seqs))

_build_where_params_reversed(where) ==
    IF ~Truthy(where) THEN Return([sql |-> <<>>, params |-> <<>>])
    ELSE IF where.t # "dict"
         THEN Raise("AttributeError", "object has no attribute 'items'", where)
    ELSE LET cl == [i \in 1..Len(where.v) |-> where_clause(where.v[i][1], where.v[i][2])]
             n == Len(cl)
         IN IF \E i \in 1..n : ~cl[i].ok
            THEN cl[CHOOSE i \in 1..n : ~cl[i].ok /\ \A j \in 1..(i-1) : cl[j].ok]
            ELSE Return([sql |-> <<SQL(" WHERE ")>>
                                 \o Join(" AND ", [i \in 1..n |-> cl[i].val.sql]),
                         params |-> Concat([i \in 1..n |-> cl[n + 1 - i].val.params])])

_build_where_simple(where) ==
    IF ~Truthy(where) THEN Return([sql |-> <<>>, params |-> <<>>])
    ELSE IF where.t # "dict"
         THEN Raise("AttributeError", "object has no attribute 'items'", where)
    ELSE LET cl == [i \in 1..Len(where.v) |-> where_clause(where.v[i][1], where.v[i][2])]
             n == Len(cl)
         IN IF \E i \in 1..n : ~cl[i].ok
            THEN cl[CHOOSE i \in 1..n : ~cl[i].ok /\ \A j \in 1..(i-1) : cl[j].ok]
            ELSE Return([sql |-> <<SQL(" WHERE ")>>
                                 \o Join(" AND ", [i \in 1..n |-> cl[i].val.sql]),
                         params |-> Concat([i \in 1..n |-> cl[i].val.params])])

-----------------------------------------------------------------------------
(* Values shared by the specifications *)

\* all sequences over alphabet of length at most n
RECURSIVE StringsUpTo(_, _)
StringsUpTo(alphabet, n) ==
    IF n = 0 THEN {<<>>}
    ELSE LET shorter == StringsUpTo(alphabet, n - 1)
         IN shorter \cup {Append(s, c) : s \in shorter, c \in alphabet}

NoTables == [n \in {} |-> None]
NotCalled == [called |-> FALSE]
Called(out) == [called |-> TRUE, out |-> out]
NoRequest == [name |-> None, content |-> None]
NoResult == [none |-> TRUE]

\* the state of the process after the module body of main.py ran
InitProcess ==
    /\ committed = NoTables
    /\ working = NoTables
    /\ conn_status = "READY"
    /\ open_cursors = 0
    /\ request = NoRequest
    /\ executed = <<>>
    /\ tool_result = NoResult
    /\ escaped = FALSE
    /\ pc = <<>>
    /\ local = <<>>
    /\ log = <<>>

process_vars == <<committed, working, conn_status, open_cursors, request,
                  executed, tool_result, escaped, pc, local, log>>

-----------------------------------------------------------------------------
(* The database behind db_connection, as cursor.execute() sees it.         *)
(* A table is [cols, types, rows]; a row is the sequence of its column     *)
(* values, NULL being None.  The server keeps column types INT, INT        *)
(* PRIMARY KEY and DATE; any other type text is a syntax error to it.      *)

AsciiUpperChar(c) ==
    IF \E i \in 1..26 : LowerAZ[i] = c
    THEN UpperAZ[CHOOSE i \in 1..26 : LowerAZ[i] = c]
    ELSE c

AsciiUpper(s) == [i \in 1..Len(s) |-> AsciiUpperChar(s[i])]

TypeInt == <<"I","N","T">>
TypeIntPk == <<"I","N","T"," ","P","R","I","M","A","R","Y"," ","K","E","Y">>
TypeDate == <<"D","A","T","E">>

\* a date the server stores and datetime.date cannot hold: 1 BC, the year
\* before datetime.MINYEAR
BCDate == <<"0","0","0","1","-","0","1","-","0","1"," ","B","C">>
DateValue(y) == [t |-> "date", year |-> y]

PgTypeOf(fragment) ==
    LET u == AsciiUpper(fragment) IN
    CASE u = TypeInt   -> "INT"
      [] u = TypeIntPk -> "INTPK"
      [] u = TypeDate  -> "DATE"
      [] OTHER         -> "?"

PgError(e) == [err |-> TRUE, pgerror |-> e]
PgOk(db, rows) == [err |-> FALSE, db |-> db, rows |-> rows]

\* the value a bound parameter takes in a column (or in a comparison with it)
Coercible(p, type) ==
    CASE type \in {"INT", "INTPK"} -> p.t \in {"int", "none"}
      [] type = "DATE"             -> p.t = "none" \/ (p.t = "str" /\ p.v = BCDate)
      [] OTHER                     -> FALSE

Coerce(p, type) == IF type = "DATE" /\ p.t = "str" THEN DateValue(0) ELSE p

Param(p) == [k |-> "Param", p |-> p]

\* client-side binding: the i-th placeholder takes the i-th parameter
RECURSIVE Bind(_, _)
Bind(q, ps) ==
    IF q = <<>> THEN <<>>
    ELSE IF Head(q).k = "Placeholder"
         THEN <<Param(Head(ps))>> \o Bind(Tail(q), Tail(ps))
         ELSE <<Head(q)>> \o Bind(Tail(q), ps)

\* the members of s whose flag in keep is TRUE, in order
RECURSIVE FilterBy(_, _)
FilterBy(s, keep) ==
    IF s = <<>> THEN <<>>
    ELSE (IF Head(keep) THEN <<Head(s)>> ELSE <<>>) \o FilterBy(Tail(s), Tail(keep))

IndexOf(parts, x) ==
    IF \E i \in 1..Len(parts) : parts[i] = x
    THEN CHOOSE i \in 1..Len(parts) : parts[i] = x /\ \A j \in 1..(i-1) : parts[j] # x
    ELSE 0

\* parts[from..to] split at the separator sep
SplitBetween(parts, from, to, sep) ==
    LET sub == SubSeq(parts, from, to)
        at == [i \in 1..Len(sub) |-> i]
        cuts == <<0>> \o FilterBy(at, [i \in 1..Len(sub) |-> sub[i] = sep])
                     \o <<Len(sub) + 1>>
    IN [i \in 1..(Len(cuts) - 1) |-> SubSeq(sub, cuts[i] + 1, cuts[i + 1] - 1)]

HasCol(tbl, name) == \E i \in 1..Len(tbl.cols) : tbl.cols[i] = name
ColIndex(tbl, name) == CHOOSE i \in 1..Len(tbl.cols) : tbl.cols[i] = name
ColType(tbl, name) == tbl.types[ColIndex(tbl, name)]

\* --- WHERE: the conditions of a bound statement, up to RETURNING / LIMIT / end
WhereConds(q) ==
    LET w == IndexOf(q, SQL(" WHERE "))
        r == IndexOf(q, SQL(" RETURNING *"))
        l == IndexOf(q, SQL(" LIMIT "))
        last == IF r # 0 THEN r - 1 ELSE IF l # 0 THEN l - 1 ELSE Len(q)
    IN IF w = 0 THEN <<>> ELSE SplitBetween(q, w + 1, last, SQL(" AND "))

CondParams(c) == FilterBy(c, [i \in 1..Len(c) |-> c[i].k = "Param"])

CondValid(c, tbl) ==
    \/ c = <<SQL("FALSE")>>
    \/ /\ c[1].k = "Identifier"
       /\ HasCol(tbl, c[1].name)
       /\ \A i \in 1..Len(CondParams(c)) :
             Coercible(CondParams(c)[i].p, ColType(tbl, c[1].name))

CondHolds(c, tbl, row) ==
    IF c = <<SQL("FALSE")>> THEN FALSE
    ELSE LET v == row[ColIndex(tbl, c[1].name)]
             type == ColType(tbl, c[1].name)
         IN IF c[2] = SQL(" IS NULL") THEN v.t = "none"
            ELSE /\ v.t # "none"
                 /\ \E i \in 1..Len(CondParams(c)) :
                       /\ CondParams(c)[i].p.t # "none"
                       /\ Coerce(CondParams(c)[i].p, type) = v

Matches(conds, tbl, row) ==
    \A i \in 1..Len(conds) : CondHolds(conds[i], tbl, row)

WhereValid(conds, tbl) ==
    \A i \in 1..Len(conds) : CondValid(conds[i], tbl)

\* --- constraints of a table: PRIMARY KEY columns are NOT NULL and UNIQUE
ConstraintsHold(tbl) ==
    \A c \in 1..Len(tbl.cols) :
        tbl.types[c] = "INTPK" =>
            /\ \A i \in 1..Len(tbl.rows) : tbl.rows[i][c].t # "none"
            /\ \A i, j \in 1..Len(tbl.rows) : i # j => tbl.rows[i][c] # tbl.rows[j][c]

\* a row as the server returns it: column name and value, in column order
RowOut(tbl, row) == [i \in 1..Len(tbl.cols) |-> <<tbl.cols[i], row[i]>>]

Put(db, name, tbl) == [n \in DOMAIN db \cup {name} |-> IF n = name THEN tbl ELSE db[n]]
Remove(db, name) == [n \in DOMAIN db \ {name} |-> db[n]]

\* --- CREATE TABLE [IF NOT EXISTS] t (c type, ...)
PgCreate(db, q) ==
    LET tname == q[3].name
        defs == SplitBetween(q, 5, Len(q) - 1, SQL(", "))
        n == Len(defs)
        types == [i \in 1..n |-> PgTypeOf(defs[i][3].chars)]
    IN IF \E i \in 1..n : types[i] = "?" THEN PgError("SyntaxError")
       ELSE IF tname \in DOMAIN db
            THEN IF q[2] = SQL("IF NOT EXISTS ") THEN PgOk(db, <<>>)
                 ELSE PgError("DuplicateTable")
       ELSE IF \E i, j \in 1..n : i # j /\ defs[i][1].name = defs[j][1].name
            THEN PgError("DuplicateColumn")
       ELSE IF Cardinality({i \in 1..n : types[i] = "INTPK"}) > 1
            THEN PgError("InvalidTableDefinition")
       ELSE PgOk(Put(db, tname, [cols |-> [i \in 1..n |-> defs[i][1].name],
                                 types |-> types,
                                 rows |-> <<>>]), <<>>)

\* --- DROP TABLE [IF EXISTS] t [CASCADE]
PgDrop(db, q) ==
    LET tname == q[3].name IN
    IF tname \in DOMAIN db THEN PgOk(Remove(db, tname), <<>>)
    ELSE IF q[2] = SQL("IF EXISTS ") THEN PgOk(db, <<>>)
    ELSE PgError("UndefinedTable")

\* --- INSERT INTO t (c, ...) VALUES (p, ...) RETURNING *
PgInsert(db, q) ==
    LET tname == q[2].name
        v == IndexOf(q, SQL(") VALUES ("))
        cols == SplitBetween(q, 4, v - 1, SQL(", "))
        vals == SplitBetween(q, v + 1, Len(q) - 1, SQL(", "))
        n == Len(cols)
    IN IF tname \notin DOMAIN db THEN PgError("UndefinedTable")
       ELSE LET tbl == db[tname]
                given(c) == \E i \in 1..n : cols[i][1].name = c
                valueOf(c) == vals[CHOOSE i \in 1..n : cols[i][1].name = c][1].p
            IN IF \E i \in 1..n : ~HasCol(tbl, cols[i][1].name)
               THEN PgError("UndefinedColumn")
               ELSE IF \E i \in 1..n :
                          ~Coercible(vals[i][1].p, ColType(tbl, cols[i][1].name))
               THEN PgError("DataError")
               ELSE LET row == [i \in 1..Len(tbl.cols) |->
                                   IF given(tbl.cols[i])
                                   THEN Coerce(valueOf(tbl.cols[i]), tbl.types[i])
                                   ELSE None]
                        new == [tbl EXCEPT !.rows = Append(@, row)]
                    IN IF ~ConstraintsHold(new) THEN PgError("IntegrityError")
                       ELSE PgOk(Put(db, tname, new), <<RowOut(tbl, row)>>)

\* --- SELECT cols FROM t [WHERE ...] [LIMIT n]
PgSelect(db, q) ==
    LET f == IndexOf(q, SQL(" FROM "))
        tname == q[f + 1].name
        star == q[2] = SQL("*")
        cols == IF star THEN <<>> ELSE SplitBetween(q, 2, f - 1, SQL(", "))
        l == IndexOf(q, SQL(" LIMIT "))
        conds == WhereConds(q)
    IN IF tname \notin DOMAIN db THEN PgError("UndefinedTable")
       ELSE LET tbl == db[tname]
                m == [i \in 1..Len(tbl.rows) |-> Matches(conds, tbl, tbl.rows[i])]
                hit == FilterBy(tbl.rows, m)
                cut == IF l = 0 \/ q[l + 1].v.v >= Len(hit) THEN hit
                       ELSE SubSeq(hit, 1, q[l + 1].v.v)
                project(row) ==
                    IF star THEN RowOut(tbl, row)
                    ELSE [i \in 1..Len(cols) |->
                             <<cols[i][1].name, row[ColIndex(tbl, cols[i][1].name)]>>]
            IN IF \E i \in 1..Len(cols) : ~HasCol(tbl, cols[i][1].name)
               THEN PgError("UndefinedColumn")
               ELSE IF ~WhereValid(conds, tbl) THEN PgError("UndefinedColumnOrDataError")
               ELSE IF l # 0 /\ q[l + 1].v.t # "int" THEN PgError("DatatypeMismatch")
               ELSE PgOk(db, [i \in 1..Len(cut) |-> project(cut[i])])

\* --- DELETE FROM t [WHERE ...] RETURNING *
PgDelete(db, q) ==
    LET tname == q[2].name
        conds == WhereConds(q)
    IN IF tname \notin DOMAIN db THEN PgError("UndefinedTable")
       ELSE LET tbl == db[tname]
                m == [i \in 1..Len(tbl.rows) |-> Matches(conds, tbl, tbl.rows[i])]
                hit == FilterBy(tbl.rows, m)
                keep == FilterBy(tbl.rows, [i \in 1..Len(m) |-> ~m[i]])
            IN IF ~WhereValid(conds, tbl) THEN PgError("UndefinedColumnOrDataError")
               ELSE PgOk(Put(db, tname, [tbl EXCEPT !.rows = keep]),
                         [i \in 1..Len(hit) |-> RowOut(tbl, hit[i])])

\* --- UPDATE t SET c = p, ... [WHERE ...] RETURNING *
PgUpdate(db, q) ==
    LET tname == q[2].name
        w == IndexOf(q, SQL(" WHERE "))
        r == IndexOf(q, SQL(" RETURNING *"))
        sets == SplitBetween(q, 4, (IF w # 0 THEN w ELSE r) - 1, SQL(", "))
        n == Len(sets)
        conds == WhereConds(q)
    IN IF tname \notin DOMAIN db THEN PgError("UndefinedTable")
       ELSE LET tbl == db[tname]
                assigned(c) == \E i \in 1..n : sets[i][1].name = c
                valueOf(c) == sets[CHOOSE i \in 1..n : sets[i][1].name = c][3].p
                upd(row) == [i \in 1..Len(tbl.cols) |->
                                IF assigned(tbl.cols[i])
                                THEN Coerce(valueOf(tbl.cols[i]), tbl.types[i])
                                ELSE row[i]]
                m == [i \in 1..Len(tbl.rows) |-> Matches(conds, tbl, tbl.rows[i])]
                rows == [i \in 1..Len(tbl.rows) |->
                            IF m[i] THEN upd(tbl.rows[i]) ELSE tbl.rows[i]]
                hit == FilterBy(rows, m)
                new == [tbl EXCEPT !.rows = rows]
            IN IF \E i \in 1..n : ~HasCol(tbl, sets[i][1].name)
               THEN PgError("UndefinedColumn")
               ELSE IF \E i \in 1..n :
                          ~Coercible(sets[i][3].p, ColType(tbl, sets[i][1].name))
               THEN PgError("DataError")
               ELSE IF ~WhereValid(conds, tbl) THEN PgError("UndefinedColumnOrDataError")
               ELSE IF ~ConstraintsHold(new) THEN PgError("IntegrityError")
               ELSE PgOk(Put(db, tname, new),
                         [i \in 1..Len(hit) |-> RowOut(tbl, hit[i])])

\* --- the catalog query of list_tables on information_schema.tables
Chars_public == <<"p","u","b","l","i","c">>
Chars_pg_catalog == <<"p","g","_","c","a","t","a","l","o","g">>
Chars_information_schema ==
    <<"i","n","f","o","r","m","a","t","i","o","n","_","s","c","h","e","m","a">>
Chars_pg_class == <<"p","g","_","c","l","a","s","s">>
Chars_tables == <<"t","a","b","l","e","s">>
Chars_table_schema == <<"t","a","b","l","e","_","s","c","h","e","m","a">>
Chars_table_name == <<"t","a","b","l","e","_","n","a","m","e">>
Chars_table_type == <<"t","a","b","l","e","_","t","y","p","e">>
Chars_BASE_TABLE == <<"B","A","S","E"," ","T","A","B","L","E">>
Chars_VIEW == <<"V","I","E","W">>

\* user table names in ORDER BY order (the names the payloads of this model use)
TableNameOrder == <<<<"t">>>>

CatalogRow(schema, name, type) == [schema |-> schema, name |-> name, type |-> type]

\* information_schema.tables, ordered by table_schema, table_name
Catalog(db) ==
    LET user == FilterBy(TableNameOrder,
                         [i \in 1..Len(TableNameOrder) |-> TableNameOrder[i] \in DOMAIN db])
    IN <<CatalogRow(Chars_information_schema, Chars_tables, Chars_VIEW),
         CatalogRow(Chars_pg_catalog, Chars_pg_class, Chars_BASE_TABLE)>>
       \o [i \in 1..Len(user) |-> CatalogRow(Chars_public, user[i], Chars_BASE_TABLE)]

AsciiLowerChar(c) ==
    IF \E i \in 1..26 : UpperAZ[i] = c
    THEN LowerAZ[CHOOSE i \in 1..26 : UpperAZ[i] = c]
    ELSE c

\* s ILIKE pat: % is any run of characters, _ any one character
RECURSIVE ILike(_, _)
ILike(s, pat) ==
    IF pat = <<>> THEN s = <<>>
    ELSE IF Head(pat) = "%"
         THEN \E k \in 0..Len(s) : ILike(SubSeq(s, k + 1, Len(s)), Tail(pat))
    ELSE /\ s # <<>>
         /\ Head(pat) = "_" \/ AsciiLowerChar(Head(pat)) = AsciiLowerChar(Head(s))
         /\ ILike(Tail(s), Tail(pat))

PgListTables(db, q) ==
    LET o == IndexOf(q, SQL(" ORDER BY table_schema, table_name"))
        conds == SplitBetween(q, 2, o - 1, SQL(" AND "))
        l == IndexOf(q, SQL(" LIMIT "))
        ok(c, row) ==
            CASE c = <<SQL("1=1")>> -> TRUE
              [] c = <<SQL("table_type = 'BASE TABLE'")>> -> row.type = Chars_BASE_TABLE
              [] c[1] = SQL("table_schema = ") -> row.schema = c[2].p.v
              [] c[1] = SQL("table_name ILIKE ") -> ILike(row.name, c[2].p.v)
        cat == Catalog(db)
        hit == FilterBy(cat, [r \in 1..Len(cat) |->
                                 \A i \in 1..Len(conds) : ok(conds[i], cat[r])])
        cut == IF l = 0 \/ q[l + 1].v.v >= Len(hit) THEN hit
               ELSE SubSeq(hit, 1, q[l + 1].v.v)
    IN IF \E i \in 1..Len(conds) : Len(conds[i]) = 2 /\ conds[i][2].p.t # "str"
       THEN PgError("UndefinedFunction")
       ELSE IF l # 0 /\ q[l + 1].v.t # "int" THEN PgError("DatatypeMismatch")
       ELSE PgOk(db, [i \in 1..Len(cut) |->
                        << <<Chars_table_schema, Str(cut[i].schema)>>,
                           <<Chars_table_name, Str(cut[i].name)>>,
                           <<Chars_table_type, Str(cut[i].type)>> >>])

\* the server's answer to one bound statement
PgExecute(db, q) ==
    CASE q[1] = SQL("CREATE TABLE ") -> PgCreate(db, q)
      [] q[1] = SQL("DROP TABLE ")   -> PgDrop(db, q)
      [] q[1] = SQL("INSERT INTO ")  -> PgInsert(db, q)
      [] q[1] = SQL("SELECT ")       -> PgSelect(db, q)
      [] q[1] = SQL("DELETE FROM ")  -> PgDelete(db, q)
      [] q[1] = SQL("UPDATE ")       -> PgUpdate(db, q)
      [] OTHER                       -> PgListTables(db, q)

-----------------------------------------------------------------------------
(* db_connection and db_cursor.  conn is the record of the connection's    *)
(* state: [committed, working, status, cursors].                           *)

\* psycopg2 can adapt every value of this model but a dict
RECURSIVE Adaptable(_)
Adaptable(p) ==
    CASE p.t = "dict" -> FALSE
      [] p.t = "list" -> \A i \in 1..Len(p.v) : Adaptable(p.v[i])
      [] OTHER        -> TRUE

NPlaceholders(q) == Cardinality({i \in 1..Len(q) : q[i].k = "Placeholder"})

\* what the connection and the cursor hold once the server answered r
ServerAnswer(conn, r) ==
    IF r.err
    THEN [conn |-> [conn EXCEPT !.status = "INERROR"], sent |-> TRUE,
          outcome |-> "dberror", exc |-> Raise("psycopg2.Error", r.pgerror, None)]
    ELSE [conn |-> [conn EXCEPT !.status = "INTRANS", !.working = r.db],
          sent |-> TRUE, outcome |-> "ok", rows |-> r.rows]

\* cursor.execute(query, params): outcome "ok" with the rows the cursor holds,
\* "dberror" (a psycopg2.Error) or "pyerror" (any other exception); sent tells
\* whether the statement reached the server.
CursorExecute(conn, query, params) ==
    IF NPlaceholders(query) # Len(params)
    THEN [conn |-> conn, sent |-> FALSE, outcome |-> "pyerror",
          exc |-> Raise("TypeError", "not all arguments converted", None)]
    ELSE IF \E i \in 1..Len(params) : ~Adaptable(params[i])
    THEN [conn |-> conn, sent |-> FALSE, outcome |-> "dberror",
          exc |-> Raise("psycopg2.ProgrammingError", "can't adapt type", None)]
    ELSE IF conn.status = "INERROR"
    THEN [conn |-> conn, sent |-> TRUE, outcome |-> "dberror",
          exc |-> Raise("psycopg2.Error", "InFailedSqlTransaction", None)]
    ELSE ServerAnswer(conn, PgExecute(conn.working, Bind(query, params)))

\* rows_as_dicts(cursor): list(cursor.fetchall()); the typecaster of a DATE
\* column builds a datetime.date, which raises ValueError below year 1
rows_as_dicts(rows) ==
    IF \E i \in 1..Len(rows) : \E j \in 1..Len(rows[i]) :
          rows[i][j][2].t = "date" /\ rows[i][j][2].year < 1
    THEN Raise("ValueError", "year is out of range", None)
    ELSE Return([i \in 1..Len(rows) |->
                    Dict([j \in 1..Len(rows[i]) |-> <<Str(rows[i][j][1]), rows[i][j][2]>>])])

\* db_connection.commit(): COMMIT of a failed transaction rolls it back
Commit(conn) ==
    CASE conn.status = "INTRANS" ->
            [conn EXCEPT !.status = "READY", !.committed = conn.working]
      [] conn.status = "INERROR" ->
            [conn EXCEPT !.status = "READY", !.working = conn.committed]
      [] OTHER -> conn

\* db_connection.rollback()
Rollback(conn) == [conn EXCEPT !.status = "READY", !.working = conn.committed]

OpenCursor(conn) == [conn EXCEPT !.cursors = @ + 1]
CloseCursor(conn) == [conn EXCEPT !.cursors = @ - 1]

\* the rest of the body once cursor.execute ended as x: rows_as_dicts(cursor)
\* when the builder fetches
AfterExecute(x, fetch) ==
    IF x.outcome # "ok" THEN [conn |-> x.conn, sent |-> x.sent, out |-> x.exc]
    ELSE [conn |-> x.conn, sent |-> TRUE,
          out |-> IF fetch THEN rows_as_dicts(x.rows) ELSE Return(<<>>)]

\* the body of a "with db_cursor() as cursor:" block of the builders:
\* cursor.execute(query, params), then rows_as_dicts(cursor) when fetch
CursorBody(conn, query, params, fetch) ==
    AfterExecute(CursorExecute(conn, query, params), fetch)

IsDriverError(exc) ==
    exc \in {"psycopg2.Error", "psycopg2.ProgrammingError"}

\* what db_cursor does once the body is over: commit on normal return,
\* rollback on psycopg2.Error, and cursor.close() in finally
db_cursor_exit(conn, out) ==
    CloseCursor(IF out.ok THEN Commit(conn)
                ELSE IF IsDriverError(out.exc) THEN Rollback(conn)
                ELSE conn)

\* the block whose body ended as b, left through db_cursor_exit
LeaveBlock(b) ==
    [conn |-> db_cursor_exit(b.conn, b.out), sent |-> b.sent, out |-> b.out]

\* a whole "with db_cursor()" block
db_cursor(conn, query, params, fetch) ==
    LeaveBlock(CursorBody(OpenCursor(conn), query, params, fetch))
-----------------------------------------------------------------------------
(* The tool functions.  Each is modelled in two operators: its code up to  *)
(* the "with db_cursor()" block, which raises or yields the statement (the *)
(* operators named ..._query), and the value it returns once the block is  *)
(* over (Returned).                                                        *)

Key_table == Str(<<"t","a","b","l","e">>)
Key_columns == Str(<<"c","o","l","u","m","n","s">>)
Key_if_not_exists == Str(<<"i","f","_","n","o","t","_","e","x","i","s","t","s">>)
Key_if_exists == Str(<<"i","f","_","e","x","i","s","t","s">>)
Key_cascade == Str(<<"c","a","s","c","a","d","e">>)
Key_values == Str(<<"v","a","l","u","e","s">>)
Key_where == Str(<<"w","h","e","r","e">>)
Key_set == Str(<<"s","e","t">>)
Key_limit == Str(<<"l","i","m","i","t">>)
Key_schema == Str(<<"s","c","h","e","m","a">>)
Key_include_views == Str(<<"i","n","c","l","u","d","e","_","v","i","e","w","s">>)
Key_pattern == Str(<<"p","a","t","t","e","r","n">>)

\* data[key]
Subscript(data, key) ==
    IF data.t # "dict"
    THEN Raise("TypeError", "list indices must be integers or slices, not str", None)
    ELSE IF ~HasKey(data, key) THEN Raise("KeyError", "", key)
    ELSE Return(Item(data, key))

\* data.get(...) on something that is not a dict
NoGet == Raise("AttributeError", "'list' object has no attribute 'get'", None)

AllOk(rs) == \A i \in 1..Len(rs) : rs[i].ok
FirstRaise(rs) == rs[CHOOSE i \in 1..Len(rs) : ~rs[i].ok /\ \A j \in 1..(i-1) : rs[j].ok]

Statement(op, query, params, fetch, info) ==
    Return([op |-> op, query |-> query, params |-> params, fetch |-> fetch,
            info |-> info])

\* the check of one column type/constraint fragment, and its column definition
column_def_unchecked_type(column_name, column_type) ==
    IF column_type.t # "str"
    THEN Raise("ValueError", "Gecersiz/izin verilmeyen kolon tipi/kisiti", column_type)
    ELSE LET col == _ident(column_name) IN
         IF ~col.ok THEN col
         ELSE Return(<<col.val, SQL(" "), RawSQL(column_type.v)>>)

column_def(column_name, column_type) ==
    IF column_type.t # "str" \/ ~TypeReMatch(Upper(column_type.v))
    THEN Raise("ValueError", "Gecersiz/izin verilmeyen kolon tipi/kisiti", column_type)
    ELSE LET col == _ident(column_name) IN
         IF ~col.ok THEN col
         ELSE Return(<<col.val, SQL(" "), RawSQL(column_type.v)>>)

create_sql_table_query(content) ==
    LET data == _parse(content) IN
    IF ~data.ok THEN data ELSE
    LET table == Subscript(data.val, Key_table) IN
    IF ~table.ok THEN table ELSE
    LET columns == Subscript(data.val, Key_columns) IN
    IF ~columns.ok THEN columns ELSE
    LET if_not_exists == Truthy(Get(data.val, Key_if_not_exists, Bool(TRUE))) IN
    IF columns.val.t # "dict" \/ ~Truthy(columns.val)
    THEN Raise("ValueError", "'columns' dict olmali ve bos olmamali.", None) ELSE
    LET defs == [i \in 1..Len(columns.val.v) |->
                    column_def(columns.val.v[i][1], columns.val.v[i][2])] IN
    IF ~AllOk(defs) THEN FirstRaise(defs) ELSE
    LET t == _ident(table.val) IN
    IF ~t.ok THEN t ELSE
    Statement("create_sql_table",
              <<SQL("CREATE TABLE "),
                IF if_not_exists THEN SQL("IF NOT EXISTS ") ELSE SQL(""),
                t.val, SQL(" (")>>
              \o Join(", ", [i \in 1..Len(defs) |-> defs[i].val])
              \o <<SQL(")")>>,
              <<>>, FALSE, [table |-> table.val])

drop_sql_table_query(content) ==
    LET data == _parse(content) IN
    IF ~data.ok THEN data ELSE
    LET table == Subscript(data.val, Key_table) IN
    IF ~table.ok THEN table ELSE
    LET if_exists == Truthy(Get(data.val, Key_if_exists, Bool(TRUE)))
        cascade == Truthy(Get(data.val, Key_cascade, Bool(FALSE)))
        t == _ident(table.val) IN
    IF ~t.ok THEN t ELSE
    Statement("drop_sql_table",
              <<SQL("DROP TABLE "),
                IF if_exists THEN SQL("IF EXISTS ") ELSE SQL(""),
                t.val,
                IF cascade THEN SQL(" CASCADE") ELSE SQL("")>>,
              <<>>, FALSE, [table |-> table.val, if_exists |-> if_exists])

insert_sql_entry_query(content) ==
    LET data == _parse(content) IN
    IF ~data.ok THEN data ELSE
    LET table == Subscript(data.val, Key_table) IN
    IF ~table.ok THEN table ELSE
    LET values == Subscript(data.val, Key_values) IN
    IF ~values.ok THEN values ELSE
    IF values.val.t # "dict" \/ ~Truthy(values.val)
    THEN Raise("ValueError", "'values' dict olmali ve bos olmamali.", None) ELSE
    LET n == Len(values.val.v)
        column_identifiers == [i \in 1..n |-> _ident(values.val.v[i][1])] IN
    IF ~AllOk(column_identifiers) THEN FirstRaise(column_identifiers) ELSE
    LET t == _ident(table.val) IN
    IF ~t.ok THEN t ELSE
    Statement("insert_sql_entry",
              <<SQL("INSERT INTO "), t.val, SQL(" (")>>
              \o Join(", ", [i \in 1..n |-> <<column_identifiers[i].val>>])
              \o <<SQL(") VALUES (")>>
              \o Join(", ", [i \in 1..n |-> <<Placeholder>>])
              \o <<SQL(") RETURNING *")>>,
              Values(values.val), TRUE, [table |-> table.val])

\* iterating a str yields its characters, a dict its keys
Iterate(x) ==
    CASE x.t = "list" -> x.v
      [] x.t = "dict" -> Keys(x)
      [] x.t = "str"  -> [i \in 1..Len(x.v) |-> Str(<<x.v[i]>>)]

\* if isinstance(limit, int) and limit > 0: ... sql.Literal(limit); a bool is
\* an int, and True > 0
LimitOf(limit) ==
    IF (limit.t = "int" /\ limit.v > 0) \/ (limit.t = "bool" /\ limit.v)
    THEN <<SQL(" LIMIT "), Literal(limit)>>
    ELSE <<>>

read_sql_entry_query(content) ==
    LET data == _parse(content) IN
    IF ~data.ok THEN data ELSE
    LET table == Subscript(data.val, Key_table) IN
    IF ~table.ok THEN table ELSE
    LET columns == Get(data.val, Key_columns, None) IN
    IF Truthy(columns) /\ columns.t \notin {"list", "dict", "str"}
    THEN Raise("TypeError", "object is not iterable", columns) ELSE
    LET cols == IF Truthy(columns)
                THEN [i \in 1..Len(Iterate(columns)) |-> _ident(Iterate(columns)[i])]
                ELSE <<>> IN
    IF ~AllOk(cols) THEN FirstRaise(cols) ELSE
    LET col_sql == IF Truthy(columns)
                   THEN Join(", ", [i \in 1..Len(cols) |-> <<cols[i].val>>])
                   ELSE <<SQL("*")>>
        w == _build_where_simple(Get(data.val, Key_where, Dict(<<>>))) IN
    IF ~w.ok THEN w ELSE
    LET t == _ident(table.val) IN
    IF ~t.ok THEN t ELSE
    Statement("read_sql_entry",
              <<SQL("SELECT ")>> \o col_sql \o <<SQL(" FROM "), t.val>>
              \o w.val.sql
              \o LimitOf(Get(data.val, Key_limit, None)),
              w.val.params, TRUE, [table |-> table.val])

delete_sql_entry_without_where_check(content) ==
    LET data == _parse(content) IN
    IF ~data.ok THEN data ELSE
    LET table == Subscript(data.val, Key_table) IN
    IF ~table.ok THEN table ELSE
    LET where == Get(data.val, Key_where, None) IN
    LET w == _build_where_simple(where) IN
    IF ~w.ok THEN w ELSE
    LET t == _ident(table.val) IN
    IF ~t.ok THEN t ELSE
    Statement("delete_sql_entry",
              <<SQL("DELETE FROM "), t.val>> \o w.val.sql \o <<SQL(" RETURNING *")>>,
              w.val.params, TRUE, [table |-> table.val])

delete_sql_entry_query(content) ==
    LET data == _parse(content) IN
    IF ~data.ok THEN data ELSE
    LET table == Subscript(data.val, Key_table) IN
    IF ~table.ok THEN table ELSE
    LET where == Get(data.val, Key_where, None) IN
    IF ~Truthy(where)
    THEN Raise("ValueError", "Guvenlik icin WHERE zorunludur.", None) ELSE
    LET w == _build_where_simple(where) IN
    IF ~w.ok THEN w ELSE
    LET t == _ident(table.val) IN
    IF ~t.ok THEN t ELSE
    Statement("delete_sql_entry",
              <<SQL("DELETE FROM "), t.val>> \o w.val.sql \o <<SQL(" RETURNING *")>>,
              w.val.params, TRUE, [table |-> table.val])

update_sql_entry_where_params_first(content) ==
    LET data == _parse(content) IN
    IF ~data.ok THEN data ELSE
    LET table == Subscript(data.val, Key_table) IN
    IF ~table.ok THEN table ELSE
    LET set_map == Get(data.val, Key_set, None)
        where == Get(data.val, Key_where, None) IN
    IF set_map.t # "dict" \/ ~Truthy(set_map)
    THEN Raise("ValueError", "'set' dict olmali ve bos olmamali.", None) ELSE
    IF ~Truthy(where)
    THEN Raise("ValueError", "Guvenlik icin WHERE zorunludur.", None) ELSE
    LET n == Len(set_map.v)
        set_cols == [i \in 1..n |-> _ident(set_map.v[i][1])] IN
    IF ~AllOk(set_cols) THEN FirstRaise(set_cols) ELSE
    LET w == _build_where_simple(where) IN
    IF ~w.ok THEN w ELSE
    LET t == _ident(table.val) IN
    IF ~t.ok THEN t ELSE
    Statement("update_sql_entry",
              <<SQL("UPDATE "), t.val, SQL(" SET ")>>
              \o Join(", ", [i \in 1..n |-> <<set_cols[i].val, SQL(" = "), Placeholder>>])
              \o w.val.sql
              \o <<SQL(" RETURNING *")>>,
              w.val.params \o Values(set_map), TRUE, [table |-> table.val])

update_sql_entry_query(content) ==
    LET data == _parse(content) IN
    IF ~data.ok THEN data ELSE
    LET table == Subscript(data.val, Key_table) IN
    IF ~table.ok THEN table ELSE
    LET set_map == Get(data.val, Key_set, None)
        where == Get(data.val, Key_where, None) IN
    IF set_map.t # "dict" \/ ~Truthy(set_map)
    THEN Raise("ValueError", "'set' dict olmali ve bos olmamali.", None) ELSE
    IF ~Truthy(where)
    THEN Raise("ValueError", "Guvenlik icin WHERE zorunludur.", None) ELSE
    LET n == Len(set_map.v)
        set_cols == [i \in 1..n |-> _ident(set_map.v[i][1])] IN
    IF ~AllOk(set_cols) THEN FirstRaise(set_cols) ELSE
    LET w == _build_where_simple(where) IN
    IF ~w.ok THEN w ELSE
    LET t == _ident(table.val) IN
    IF ~t.ok THEN t ELSE
    Statement("update_sql_entry",
              <<SQL("UPDATE "), t.val, SQL(" SET ")>>
              \o Join(", ", [i \in 1..n |-> <<set_cols[i].val, SQL(" = "), Placeholder>>])
              \o w.val.sql
              \o <<SQL(" RETURNING *")>>,
              Values(set_map) \o w.val.params, TRUE, [table |-> table.val])

\* pat = pattern if any(ch in pattern for ch in ("%","_")) else f"%{pattern}%"
PatternOf(pattern) ==
    IF \E i \in 1..Len(pattern.v) : pattern.v[i] \in {"%", "_"}
    THEN pattern
    ELSE Str(<<"%">> \o pattern.v \o <<"%">>)

list_tables_query(content) ==
    LET data == _parse(content) IN
    IF ~data.ok THEN data ELSE
    IF data.val.t # "dict" THEN NoGet ELSE
    LET schema == Get(data.val, Key_schema, None)
        include_views == Truthy(Get(data.val, Key_include_views, Bool(FALSE)))
        pattern == Get(data.val, Key_pattern, None)
        limit == Get(data.val, Key_limit, Num(200)) IN
    IF Truthy(pattern) /\ pattern.t # "str"
    THEN Raise("TypeError", "argument is not iterable", pattern) ELSE
    LET where_sql ==
            <<<<SQL("1=1")>>>>
            \o (IF ~include_views THEN <<<<SQL("table_type = 'BASE TABLE'")>>>> ELSE <<>>)
            \o (IF Truthy(schema) THEN <<<<SQL("table_schema = "), Placeholder>>>> ELSE <<>>)
            \o (IF Truthy(pattern) THEN <<<<SQL("table_name ILIKE "), Placeholder>>>> ELSE <<>>)
        params ==
            (IF Truthy(schema) THEN <<schema>> ELSE <<>>)
            \o (IF Truthy(pattern) THEN <<PatternOf(pattern)>> ELSE <<>>)
    IN
    Statement("list_tables",
              <<SQL("SELECT table_schema, table_name, table_type FROM information_schema.tables WHERE ")>>
              \o Join(" AND ", where_sql)
              \o <<SQL(" ORDER BY table_schema, table_name")>>
              \o LimitOf(limit),
              params, TRUE, [table |-> None])

\* the value the tool function returns after its db_cursor block, rows being
\* what rows_as_dicts gave
Returned(stmt, rows) ==
    CASE stmt.op = "create_sql_table" ->
            [fmt |-> "{table} tablosu olusturuldu (ya da zaten vardi).",
             table |-> stmt.info.table]
      [] stmt.op = "drop_sql_table" ->
            [fmt |-> IF stmt.info.if_exists THEN "{table} tablosu silindi."
                     ELSE "{table} tablosu drop komutu uygulandi.",
             table |-> stmt.info.table]
      [] stmt.op = "insert_sql_entry" -> [inserted |-> Len(rows), rows |-> rows]
      [] stmt.op = "read_sql_entry"   -> [count |-> Len(rows), rows |-> rows]
      [] stmt.op = "delete_sql_entry" -> [deleted |-> Len(rows), rows |-> rows]
      [] stmt.op = "update_sql_entry" -> [updated |-> Len(rows), rows |-> rows]
      [] stmt.op = "list_tables"      -> [count |-> Len(rows), tables |-> rows]

-----------------------------------------------------------------------------
(* handle_user_message, from the function call the model returned to the   *)
(* tool_result envelope                                                    *)

Name_create_sql_table == <<"c","r","e","a","t","e","_","s","q","l","_","t","a","b","l","e">>
Name_drop_sql_table == <<"d","r","o","p","_","s","q","l","_","t","a","b","l","e">>
Name_insert_sql_entry == <<"i","n","s","e","r","t","_","s","q","l","_","e","n","t","r","y">>
Name_read_sql_entry == <<"r","e","a","d","_","s","q","l","_","e","n","t","r","y">>
Name_delete_sql_entry == <<"d","e","l","e","t","e","_","s","q","l","_","e","n","t","r","y">>
Name_update_sql_entry == <<"u","p","d","a","t","e","_","s","q","l","_","e","n","t","r","y">>
Name_list_tables == <<"l","i","s","t","_","t","a","b","l","e","s">>

ToolNames ==
    {Name_create_sql_table, Name_drop_sql_table, Name_insert_sql_entry,
     Name_read_sql_entry, Name_delete_sql_entry, Name_update_sql_entry,
     Name_list_tables}

\* str.strip(): leading and trailing white space removed
RECURSIVE LStrip(_)
LStrip(s) == IF s # <<>> /\ Head(s) \in Whitespace THEN LStrip(Tail(s)) ELSE s

RECURSIVE RStrip(_)
RStrip(s) ==
    IF s # <<>> /\ s[Len(s)] \in Whitespace THEN RStrip(SubSeq(s, 1, Len(s) - 1)) ELSE s

Strip(s) == RStrip(LStrip(s))

\* the name taken as it was received
StrippedName_as_received(name) == IF Truthy(name) THEN name.v ELSE <<>>

\* name = (function_call.name or "").strip()
StrippedName(name) == IF Truthy(name) THEN Strip(name.v) ELSE <<>>

\* the tool function the if / elif chain selects, up to its db_cursor block
QueryOf(name, content) ==
    CASE name = Name_create_sql_table -> create_sql_table_query(content)
      [] name = Name_drop_sql_table   -> drop_sql_table_query(content)
      [] name = Name_insert_sql_entry -> insert_sql_entry_query(content)
      [] name = Name_read_sql_entry   -> read_sql_entry_query(content)
      [] name = Name_delete_sql_entry -> delete_sql_entry_query(content)
      [] name = Name_update_sql_entry -> update_sql_entry_query(content)
      [] name = Name_list_tables      -> list_tables_query(content)

\* the envelope of a tool function that returned result
Success(name, result) ==
    CASE name = Name_create_sql_table ->
            [ok |-> TRUE,
             message |-> [fmt |-> "Tablo olusturma sonucu: {result}", result |-> result]]
      [] name = Name_drop_sql_table ->
            [ok |-> TRUE, message |-> result]
      [] name = Name_insert_sql_entry ->
            [ok |-> TRUE, message |-> [fmt |-> "Olusturuldu"], data |-> result]
      [] name = Name_read_sql_entry ->
            [ok |-> TRUE, message |-> [fmt |-> "Bilgiler"], data |-> result]
      [] name = Name_delete_sql_entry ->
            [ok |-> TRUE, message |-> [fmt |-> "Silindi"], data |-> result]
      [] name = Name_update_sql_entry ->
            [ok |-> TRUE, message |-> [fmt |-> "Guncellendi"], data |-> result]
      [] name = Name_list_tables ->
            [ok |-> TRUE, message |-> [fmt |-> "Tablolar"], data |-> result]

Failure_with_data(exc) ==
    [ok |-> FALSE, error |-> [fmt |-> exc.msg, arg |-> exc.arg], data |-> None]

\* {"ok": False, "error": str(exc)}
Failure(exc) == [ok |-> FALSE, error |-> [fmt |-> exc.msg, arg |-> exc.arg]]

UnknownTool(name) ==
    [ok |-> FALSE, error |-> [fmt |-> "Bilinmeyen tool: {name}", name |-> name]]

\* the exception classes of this model, all of them subclasses of Exception
ExceptionClasses ==
    {"ValueError", "JSONDecodeError", "KeyError", "TypeError", "AttributeError",
     "psycopg2.Error", "psycopg2.ProgrammingError"}

except_ValueError_only(exc) == exc \in {"ValueError", "JSONDecodeError"}

\* except Exception as exc
except_Exception(exc) == exc \in ExceptionClasses

\* what the tool function returns or raises once its db_cursor block ended as c
AfterBlock(stmt, c) ==
    [conn |-> c.conn,
     sent |-> IF c.sent THEN <<[query |-> stmt.query, params |-> stmt.params]>> ELSE <<>>,
     out |-> IF c.out.ok THEN Return(Returned(stmt, c.out.val)) ELSE c.out]

\* the tool function from its statement on: nothing is executed when stmt is
\* an exception raised while the statement was built
RunStatement(conn, stmt) ==
    IF ~stmt.ok THEN [conn |-> conn, sent |-> <<>>, out |-> stmt]
    ELSE AfterBlock(stmt.val,
                    db_cursor(conn, stmt.val.query, stmt.val.params, stmt.val.fetch))

\* the run of a tool function: [conn, sent, out], out being what it returned
\* or raised
ToolCall(conn, name, content) == RunStatement(conn, QueryOf(name, content))

\* the envelope handle_user_message builds from the run r of the tool name
Envelope(name, r) ==
    IF r.out.ok
    THEN [conn |-> r.conn, sent |-> r.sent, escaped |-> FALSE,
          result |-> Success(name, r.out.val)]
    ELSE IF except_Exception(r.out.exc)
    THEN [conn |-> r.conn, sent |-> r.sent, escaped |-> FALSE, result |-> Failure(r.out)]
    ELSE [conn |-> r.conn, sent |-> r.sent, escaped |-> TRUE, result |-> NoResult]

\* the if / elif chain of handle_user_message for the stripped name
DispatchNamed(conn, name, content) ==
    IF name \notin ToolNames
    THEN [conn |-> conn, sent |-> <<>>, escaped |-> FALSE, result |-> UnknownTool(name)]
    ELSE Envelope(name, ToolCall(conn, name, content))

\* the try / except of handle_user_message
Dispatch(conn, fc) == DispatchNamed(conn, StrippedName(fc.name), fc.content)

Connection == [committed |-> committed, working |-> working,
               status |-> conn_status, cursors |-> open_cursors]

RowsWithinBound(db) == \A n \in DOMAIN db : Len(db[n].rows) <= MaxRows

\* one turn of the chat loop whose first model response is the function call fc
Invoke(fc) ==
    \E d \in {Dispatch(Connection, fc)} :
    /\ RowsWithinBound(d.conn.working)
    /\ request' = fc
    /\ committed' = d.conn.committed
    /\ working' = d.conn.working
    /\ conn_status' = d.conn.status
    /\ open_cursors' = d.conn.cursors
    /\ executed' = d.sent
    /\ tool_result' = d.result
    /\ escaped' = d.escaped
    /\ UNCHANGED <<pc, local, log, arg, ret>>

-----------------------------------------------------------------------------
(* Spec: the chat loop of main.py, one caller, one invocation at a time.   *)
(* The function calls are drawn from the payloads below.                   *)

T == Str(<<"t">>)
Col_id == Str(<<"i","d">>)
Col_d == Str(<<"d">>)
Col_id_newline == Str(<<"i","d","\n">>)
Col_with_space == Str(<<"i"," ","d">>)
Quoted == Str(<<"x","'">>)

\* the JSON text of an object with these members
Obj(pairs) == Json(Dict(pairs))
One(k, v) == Dict(<<<<k, v>>>>)

\* content that is no JSON object
BadContents ==
    {None, Str(<<>>), Str(<<"x">>), Json(List(<<>>)), List(<<T>>)}

BadTables == {Str(<<"t",";">>)}

CreateColumns ==
    {One(Col_id, Str(TypeIntPk)), One(Col_id, Str(<<"i","n","t">>)),
     One(Col_d, Str(TypeDate)), One(Col_id, Str(<<"I","N","T",";">>)),
     One(Col_id, Str(<<"I","N","T","'">>)), One(Col_id, Num(5)),
     One(Col_with_space, Str(TypeInt)), Dict(<<>>), List(<<Col_id>>),
     Dict(<<<<Col_id, Str(TypeInt)>>, <<Col_d, Str(<<"-","-">>)>>>>)}

CreateContents ==
    {Obj(<<<<Key_table, T>>, <<Key_columns, c>>>>) : c \in CreateColumns}
      \cup {Obj(<<<<Key_table, T>>, <<Key_columns, One(Col_id, Str(TypeInt))>>,
                  <<Key_if_not_exists, Bool(FALSE)>>>>),
            Dict(<<<<Key_table, T>>, <<Key_columns, One(Col_id, Str(TypeIntPk))>>>>),
            Obj(<<<<Key_columns, One(Col_id, Str(TypeInt))>>>>),
            Obj(<<<<Key_table, T>>>>)}
      \cup {Obj(<<<<Key_table, t>>, <<Key_columns, One(Col_id, Str(TypeInt))>>>>) :
               t \in BadTables \cup {Num(7)}}
      \cup BadContents

DropContents ==
    {Obj(<<<<Key_table, T>>>>),
     Obj(<<<<Key_table, T>>, <<Key_if_exists, Bool(FALSE)>>>>),
     Obj(<<<<Key_table, T>>, <<Key_cascade, Bool(TRUE)>>>>),
     Obj(<<>>)}
      \cup {Obj(<<<<Key_table, t>>>>) : t \in BadTables}
      \cup BadContents

InsertValues ==
    {One(Col_id, Num(1)), One(Col_id, Num(2)), One(Col_d, Str(BCDate)),
     One(Col_id, Quoted), One(Col_id, Dict(<<>>)), One(Col_id_newline, Num(1)),
     Dict(<<>>), List(<<Num(1)>>)}

InsertContents ==
    {Obj(<<<<Key_table, T>>, <<Key_values, v>>>>) : v \in InsertValues}
      \cup {Obj(<<<<Key_table, T>>>>), Obj(<<<<Key_values, One(Col_id, Num(1))>>>>)}
      \cup {Obj(<<<<Key_table, t>>, <<Key_values, One(Col_id, Num(1))>>>>) :
               t \in BadTables}
      \cup BadContents

\* a where member: absent (<<>>) or present with one of these values
Wheres ==
    {<<>>}
      \cup {<<<<Key_where, w>>>> :
              w \in {None, Dict(<<>>), List(<<Num(1)>>),
                     One(Col_id, Num(1)), One(Col_id, Num(2)), One(Col_id, None),
                     One(Col_id, List(<<>>)), One(Col_id, List(<<Num(1), Num(2)>>)),
                     One(Col_id, Quoted), One(Col_id_newline, Num(1)),
                     Dict(<<<<Col_id, Num(1)>>, <<Col_with_space, Num(1)>>>>)}}

ReadContents ==
    {Obj(<<<<Key_table, T>>>> \o w) : w \in Wheres}
      \cup {Obj(<<<<Key_table, T>>, <<Key_limit, l>>>>) : l \in {Num(1), Num(0), Bool(TRUE)}}
      \cup {Obj(<<<<Key_table, T>>, <<Key_columns, c>>>>) :
               c \in {List(<<Col_id>>), List(<<Col_id_newline>>),
                      List(<<Col_id, Col_with_space>>), Col_id}}
      \cup {Obj(<<<<Key_table, T>>, <<Key_where, One(Col_id, List(<<Num(1), Num(2)>>))>>,
                  <<Key_limit, Num(1)>>>>),
            Obj(<<>>)}
      \cup {Obj(<<<<Key_table, t>>>>) : t \in BadTables}
      \cup BadContents

DeleteContents ==
    {Obj(<<<<Key_table, T>>>> \o w) : w \in Wheres}
      \cup {Obj(<<<<Key_where, One(Col_id, Num(1))>>>>)}
      \cup {Obj(<<<<Key_table, t>>, <<Key_where, One(Col_id, Num(1))>>>>) : t \in BadTables}
      \cup BadContents

UpdateSets == {One(Col_id, Num(1)), One(Col_id, Num(2))}

UpdateContents ==
    {Obj(<<<<Key_table, T>>, <<Key_set, s>>>> \o w) : s \in UpdateSets, w \in Wheres}
      \cup {Obj(<<<<Key_table, T>>, <<Key_set, s>>, <<Key_where, One(Col_id, Num(1))>>>>) :
               s \in {Dict(<<>>), One(Col_id_newline, Num(1)),
                      One(Col_with_space, Num(1)), List(<<Num(1)>>)}}
      \cup {Obj(<<<<Key_table, T>>, <<Key_where, One(Col_id, Num(1))>>>>),
            Obj(<<<<Key_set, One(Col_id, Num(1))>>, <<Key_where, One(Col_id, Num(1))>>>>)}
      \cup {Obj(<<<<Key_table, t>>, <<Key_set, One(Col_id, Num(2))>>,
                  <<Key_where, One(Col_id, Num(1))>>>>) : t \in BadTables}
      \cup BadContents

ListContents ==
    {Obj(<<>>),
     Obj(<<<<Key_schema, Str(Chars_public)>>>>),
     Obj(<<<<Key_include_views, Bool(TRUE)>>>>),
     Obj(<<<<Key_pattern, T>>>>),
     Obj(<<<<Key_pattern, Str(<<"p","g","_","c","%">>)>>, <<Key_limit, Num(1)>>>>),
     Obj(<<<<Key_pattern, Num(5)>>>>),
     Obj(<<<<Key_include_views, Bool(TRUE)>>, <<Key_limit, Num(1)>>>>)}
      \cup BadContents

\* names the dispatcher knows no tool for
OtherNames ==
    {None, Str(<<>>), Str(<<"r","u","n","_","s","q","l">>),
     Str(<<"L","I","S","T","_","T","A","B","L","E","S">>)}

\* a function call for the tool, as the model names it
Call(name, content) == [name |-> Str(name), content |-> content]

Init == InitProcess /\ arg = None /\ ret = NotCalled

CreateTable == \E c \in CreateContents : Invoke(Call(Name_create_sql_table, c))
DropTable == \E c \in DropContents : Invoke(Call(Name_drop_sql_table, c))
InsertEntry == \E c \in InsertContents : Invoke(Call(Name_insert_sql_entry, c))
ReadEntry == \E c \in ReadContents : Invoke(Call(Name_read_sql_entry, c))
DeleteEntry == \E c \in DeleteContents : Invoke(Call(Name_delete_sql_entry, c))
UpdateEntry == \E c \in UpdateContents : Invoke(Call(Name_update_sql_entry, c))
ListTables == \E c \in ListContents : Invoke(Call(Name_list_tables, c))
OtherTool ==
    \E n \in OtherNames, c \in {Obj(<<<<Key_table, T>>>>), None} :
        Invoke([name |-> n, content |-> c])

Next ==
    \/ CreateTable
    \/ DropTable
    \/ InsertEntry
    \/ ReadEntry
    \/ DeleteEntry
    \/ UpdateEntry
    \/ ListTables
    \/ OtherTool

Spec == Init /\ [][Next]_vars

-----------------------------------------------------------------------------
(* SpecIdent: _ident applied to every short name *)

IdentAlphabet == {"a", "Z", "_", "7", "\n", "-", " "}

IdentArgs ==
    {Str(s) : s \in StringsUpTo(IdentAlphabet, MaxNameLen)}
        \cup {None, Num(1), List(<<>>), Bool(TRUE)}

InitIdent == InitProcess /\ arg \in IdentArgs /\ ret = NotCalled

CallIdent ==
    /\ ~ret.called
    /\ ret' = Called(_ident(arg))
    /\ UNCHANGED <<arg, process_vars>>

SpecIdent == InitIdent /\ [][CallIdent]_vars

-----------------------------------------------------------------------------
(* SpecWhere: _build_where_simple applied to every small predicate map *)

WhereKeys == <<Str(<<"a">>), Str(<<"b">>), Str(<<"c">>), Str(<<"d">>)>>

WhereVals ==
    {None, List(<<>>), List(<<Num(1)>>), List(<<Num(1), Num(2)>>),
     Num(1), Num(0), Bool(FALSE), Str(<<>>), Str(<<"x", "'">>)}

\* dicts of exactly n entries whose keys are distinct
PairSeqs(keys, vals, n) ==
    {ps \in [1..n -> keys \X vals] :
        \A i, j \in 1..n : i # j => ps[i][1] # ps[j][1]}

WhereArgs ==
    {None}
      \cup {Dict(ps) : ps \in UNION {PairSeqs({WhereKeys[i] : i \in 1..MaxWhereKeys},
                                             WhereVals, n) : n \in 0..MaxWhereKeys}}

InitWhere == InitProcess /\ arg \in WhereArgs /\ ret = NotCalled

CallWhere ==
    /\ ~ret.called
    /\ ret' = Called(_build_where_simple(arg))
    /\ UNCHANGED <<arg, process_vars>>

SpecWhere == InitWhere /\ [][CallWhere]_vars


-----------------------------------------------------------------------------
(* SpecType: create_sql_table called with every short column type fragment *)

TypeAlphabet ==
    {"i", "N", "1", "_", "(", ")", ",", " ", ";", "'", "\"", "-",
     "U+0131", "U+00DF", "U+00E9"}

TypeArgs ==
    {Str(s) : s \in StringsUpTo(TypeAlphabet, MaxFragLen)}
        \cup {Str(<<"i","n","t">>), Str(<<"I","n","t">>), Str(TypeDate),
              Str(<<"I","N","T","\n">>), Str(<<"I","N","T",";">>),
              None, Num(5), Bool(TRUE), List(<<Str(TypeInt)>>), Dict(<<>>)}

InitType == InitProcess /\ arg \in TypeArgs /\ ret = NotCalled

\* the chat turn whose function call creates table t with one column of type arg
CreateWithType ==
    /\ request = NoRequest
    /\ Invoke(Call(Name_create_sql_table,
                   Obj(<<<<Key_table, T>>, <<Key_columns, One(Col_id, arg)>>>>)))

SpecType == InitType /\ [][CreateWithType]_vars

-----------------------------------------------------------------------------
(* SpecWeb: two POST requests of ChatView served by concurrent threads.    *)
(* Each runs handle_user_message, hence one tool function, on the one      *)
(* db_connection of main.py.  A request yields to the other one where its  *)
(* thread can be preempted: before cursor.execute and before the exit of   *)
(* db_cursor; psycopg2 serialises the calls on a connection, so execute,   *)
(* commit and rollback are each one step.                                  *)

Requests == {"r1", "r2"}

\* table t (id INT PRIMARY KEY), empty
WebTables ==
    [n \in {T.v} |-> [cols |-> <<Col_id.v>>, types |-> <<"INTPK">>, rows |-> <<>>]]

\* the function calls the language model returns for the posted messages
WebCalls ==
    {Call(Name_insert_sql_entry, Obj(<<<<Key_table, T>>, <<Key_values, One(Col_id, v)>>>>)) :
        v \in {Num(1), Num(2), Quoted}}
      \cup {Call(Name_read_sql_entry, Obj(<<<<Key_table, T>>>>)),
            Call(Name_read_sql_entry, Obj(<<>>))}

NoLocal == [fc |-> NoRequest, stmt |-> None, body |-> None, result |-> NoResult]

InitWeb ==
    /\ committed = WebTables
    /\ working = WebTables
    /\ conn_status = "READY"
    /\ open_cursors = 0
    /\ request = NoRequest
    /\ executed = <<>>
    /\ tool_result = NoResult
    /\ escaped = FALSE
    /\ pc = [r \in Requests |-> "post"]
    /\ local = [r \in Requests |-> NoLocal]
    /\ log = [pending |-> {}, ends |-> <<>>]
    /\ arg = None
    /\ ret = NotCalled

SetConnection(conn) ==
    /\ committed' = conn.committed
    /\ working' = conn.working
    /\ conn_status' = conn.status
    /\ open_cursors' = conn.cursors

\* how db_cursor ends the transaction for a body that ended as out
EndingOf(out) ==
    IF out.ok THEN "commit" ELSE IF IsDriverError(out.exc) THEN "rollback" ELSE "none"

\* ChatView.post up to the cursor of db_cursor: the function call is received
\* and the tool function builds its statement, or raises
Start(r) ==
    /\ pc[r] = "post"
    /\ \E fc \in WebCalls :
         \E stmt \in {QueryOf(StrippedName(fc.name), fc.content)} :
            IF stmt.ok
            THEN /\ SetConnection(OpenCursor(Connection))
                 /\ local' = [local EXCEPT ![r] = [fc |-> fc, stmt |-> stmt.val,
                                                   body |-> None, result |-> NoResult]]
                 /\ pc' = [pc EXCEPT ![r] = "execute"]
            ELSE /\ local' = [local EXCEPT ![r] =
                        [fc |-> fc, stmt |-> None, body |-> None,
                         result |-> Envelope(StrippedName(fc.name),
                                             RunStatement(Connection, stmt)).result]]
                 /\ pc' = [pc EXCEPT ![r] = "done"]
                 /\ UNCHANGED <<committed, working, conn_status, open_cursors>>
    /\ UNCHANGED <<request, executed, tool_result, escaped, log, arg, ret>>

\* the body of the with block: cursor.execute and rows_as_dicts
Execute(r) ==
    /\ pc[r] = "execute"
    /\ \E b \in {CursorBody(Connection, local[r].stmt.query, local[r].stmt.params,
                            local[r].stmt.fetch)} :
          /\ SetConnection(b.conn)
          /\ local' = [local EXCEPT ![r].body = [sent |-> b.sent, out |-> b.out]]
          /\ log' = [log EXCEPT !.pending =
                        IF b.sent /\ b.conn.status = "INTRANS" THEN @ \cup {r} ELSE @]
    /\ pc' = [pc EXCEPT ![r] = "exit"]
    /\ UNCHANGED <<request, executed, tool_result, escaped, arg, ret>>

\* the exit of db_cursor (commit, or rollback, and cursor.close()), then the
\* return of the tool function and the envelope of handle_user_message
Exit(r) ==
    /\ pc[r] = "exit"
    /\ \E body \in {local[r].body} :
          /\ SetConnection(db_cursor_exit(Connection, body.out))
          /\ local' = [local EXCEPT ![r].result =
                Envelope(StrippedName(local[r].fc.name),
                         AfterBlock(local[r].stmt,
                                    [conn |-> Connection, sent |-> body.sent,
                                     out |-> body.out])).result]
          /\ log' = [pending |-> IF EndingOf(body.out) = "none" THEN log.pending ELSE {},
                     ends |-> Append(log.ends, [by |-> r, how |-> EndingOf(body.out),
                                                 pending |-> log.pending])]
    /\ pc' = [pc EXCEPT ![r] = "done"]
    /\ UNCHANGED <<request, executed, tool_result, escaped, arg, ret>>

NextWeb == \E r \in Requests : Start(r) \/ Execute(r) \/ Exit(r)

SpecWeb == InitWeb /\ [][NextWeb]_vars
-----------------------------------------------------------------------------
(* SpecParse: every tool called with content of every kind: JSON texts,   *)
(* written character by character, and values decoded beforehand.         *)

\* JSON texts of objects, each with the object it is the text of
ObjectTexts ==
    { \* {"table":"t","columns":{"id":"INT PRIMARY KEY"}}
      <<<<"{","\"","t","a","b","l","e","\"",":","\"","t","\"",",","\"","c","o","l","u","m","n","s","\"",":","{","\"","i","d","\"",":","\"","I","N","T"," ","P","R","I","M","A","R","Y"," ","K","E","Y","\"","}","}">>,
        Dict(<<<<Key_table, T>>, <<Key_columns, One(Col_id, Str(TypeIntPk))>>>>)>>,
      \* {"table": "t", "values": {"id": 1}}
      <<<<"{","\"","t","a","b","l","e","\"",":"," ","\"","t","\"",","," ","\"","v","a","l","u","e","s","\"",":"," ","{","\"","i","d","\"",":"," ","1","}","}">>,
        Dict(<<<<Key_table, T>>, <<Key_values, One(Col_id, Num(1))>>>>)>>,
      \* {"table":"t"}
      <<<<"{","\"","t","a","b","l","e","\"",":","\"","t","\"","}">>,
        Dict(<<<<Key_table, T>>>>)>>,
      \*  {"table":"t","where":{"id":[1,2]}}\n
      <<<<" ","{","\"","t","a","b","l","e","\"",":","\"","t","\"",",","\"","w","h","e","r","e","\"",":","{","\"","i","d","\"",":","[","1",",","2","]","}","}","\n">>,
        Dict(<<<<Key_table, T>>, <<Key_where, One(Col_id, List(<<Num(1), Num(2)>>))>>>>)>>,
      \* {"table":"t","where":{"id":null}}
      <<<<"{","\"","t","a","b","l","e","\"",":","\"","t","\"",",","\"","w","h","e","r","e","\"",":","{","\"","i","d","\"",":","n","u","l","l","}","}">>,
        Dict(<<<<Key_table, T>>, <<Key_where, One(Col_id, None)>>>>)>>,
      \* {"table":"t","set":{"id":2},"where":{"id":1}}
      <<<<"{","\"","t","a","b","l","e","\"",":","\"","t","\"",",","\"","s","e","t","\"",":","{","\"","i","d","\"",":","2","}",",","\"","w","h","e","r","e","\"",":","{","\"","i","d","\"",":","1","}","}">>,
        Dict(<<<<Key_table, T>>, <<Key_set, One(Col_id, Num(2))>>, <<Key_where, One(Col_id, Num(1))>>>>)>>,
      \* {"table":"u","table":"t","cascade":false}
      <<<<"{","\"","t","a","b","l","e","\"",":","\"","u","\"",",","\"","t","a","b","l","e","\"",":","\"","t","\"",",","\"","c","a","s","c","a","d","e","\"",":","f","a","l","s","e","}">>,
        Dict(<<<<Key_table, T>>, <<Key_cascade, Bool(FALSE)>>>>)>>,
      \* {}
      <<<<"{","}">>,
        Dict(<<>>)>>,
      \* { }
      <<<<"{"," ","}">>,
        Dict(<<>>)>>,
      \* {"include_views":true,"limit":1}
      <<<<"{","\"","i","n","c","l","u","d","e","_","v","i","e","w","s","\"",":","t","r","u","e",",","\"","l","i","m","i","t","\"",":","1","}">>,
        Dict(<<<<Key_include_views, Bool(TRUE)>>, <<Key_limit, Num(1)>>>>)>>}

\* texts that are not the JSON text of an object
NonObjectTexts ==
    { \* the empty string: 
      <<>>,
      \* white space only:  
      <<" ">>,
      \* no JSON value: x
      <<"x">>,
      \* an object that is not closed: {"table":"t"
      <<"{","\"","t","a","b","l","e","\"",":","\"","t","\"">>,
      \* an object followed by something else: {"table":"t"} x
      <<"{","\"","t","a","b","l","e","\"",":","\"","t","\"","}"," ","x">>,
      \* two objects: {"table":"t"}{}
      <<"{","\"","t","a","b","l","e","\"",":","\"","t","\"","}","{","}">>,
      \* single quotes: {'table':'t'}
      <<"{","'","t","a","b","l","e","'",":","'","t","'","}">>,
      \* a comma before the closing brace: {"table":"t",}
      <<"{","\"","t","a","b","l","e","\"",":","\"","t","\"",",","}">>,
      \* a property name without quotes: {table:"t"}
      <<"{","t","a","b","l","e",":","\"","t","\"","}">>,
      \* no colon: {"table" "t"}
      <<"{","\"","t","a","b","l","e","\""," ","\"","t","\"","}">>,
      \* a control character within a string: {"table":"t\n"}
      <<"{","\"","t","a","b","l","e","\"",":","\"","t","\n","\"","}">>,
      \* a number with a leading zero: {"table":01}
      <<"{","\"","t","a","b","l","e","\"",":","0","1","}">>,
      \* a sign without digits: {"table":-}
      <<"{","\"","t","a","b","l","e","\"",":","-","}">>,
      \* an empty array: []
      <<"[","]">>,
      \* an array holding an object: [{"table":"t"}]
      <<"[","{","\"","t","a","b","l","e","\"",":","\"","t","\"","}","]">>,
      \* a string holding the text of an object: "{\"table\":\"t\"}"
      <<"\"","{","\\","\"","t","a","b","l","e","\\","\"",":","\\","\"","t","\\","\"","}","\"">>,
      \* a number: 1
      <<"1">>,
      \* null: null
      <<"n","u","l","l">>,
      \* true: true
      <<"t","r","u","e">>,
      \* an incomplete literal: nul
      <<"n","u","l">>}

\* content decoded beforehand that is no object
NonObjectValues ==
    {None, List(<<>>), List(<<Dict(<<<<Key_table, T>>>>)>>),
     Num(0), Num(1), Bool(TRUE)}

TextContents == {Str(p[1]) : p \in ObjectTexts} \cup {Str(s) : s \in NonObjectTexts}
DecodedContents == {p[2] : p \in ObjectTexts} \cup NonObjectValues

InitParse == InitProcess /\ arg = None /\ ret = NotCalled

\* a chat turn whose function call carries content as a str
CallWithText == \E n \in ToolNames, c \in TextContents : Invoke(Call(n, c))

\* a chat turn whose function call carries content already decoded
CallWithDecoded == \E n \in ToolNames, c \in DecodedContents : Invoke(Call(n, c))

NextParse == CallWithText \/ CallWithDecoded

SpecParse == InitParse /\ [][NextParse]_vars

-----------------------------------------------------------------------------
(* SpecName: function calls under every kind of name: the names of the     *)
(* tools, the same in white space, in capitals or with a character more,   *)
(* other names, the empty name and no name.                                *)

ReceivedNames ==
    {Str(n) : n \in ToolNames}
      \cup {Str(<<" ">> \o n) : n \in ToolNames}
      \cup {Str(n \o <<"\n">>) : n \in ToolNames}
      \cup {Str(Upper(n)) : n \in ToolNames}
      \cup {Str(<<"\t">> \o Name_list_tables \o <<" ", " ">>),
            Str(<<"U+00A0">> \o Name_read_sql_entry),
            Str(Name_list_tables \o <<"s">>),
            Str(<<"x">> \o Name_drop_sql_table),
            Str(<<"l","i","s","t"," ","t","a","b","l","e","s">>),
            Str(<<"r","u","n","_","s","q","l">>),
            Str(<<" ">>), Str(<<>>), None}

\* payloads the tools accept
NameContents ==
    {Dict(<<<<Key_table, T>>, <<Key_columns, One(Col_id, Str(TypeIntPk))>>>>),
     Dict(<<<<Key_table, T>>, <<Key_values, One(Col_id, Num(1))>>>>),
     Dict(<<<<Key_table, T>>, <<Key_set, One(Col_id, Num(2))>>,
            <<Key_where, One(Col_id, Num(1))>>>>),
     Dict(<<<<Key_table, T>>>>),
     Dict(<<>>)}

InitName == InitProcess /\ arg = None /\ ret = NotCalled

\* a chat turn whose function call carries the name n
CallNamed == \E n \in ReceivedNames, c \in NameContents : Invoke([name |-> n, content |-> c])

SpecName == InitName /\ [][CallNamed]_vars

-----------------------------------------------------------------------------
(* What the properties below speak of *)

\* the tool the last function call named, and its decoded payload
ReqName == StrippedName(request.name)
Payload == _parse(request.content)

\* handle_user_message built an envelope
Answered == "ok" \in DOMAIN tool_result

\* one character of [A-Za-z_] followed by characters of [A-Za-z0-9_], nothing else
IsIdentifierString(s) ==
    /\ Len(s) >= 1
    /\ s[1] \in IdentStart
    /\ \A j \in 2..Len(s) : s[j] \in IdentBody

-----------------------------------------------------------------------------
(* C1: delete and update demand a where *)

\* the where member of the payload is absent, null or an empty map
WhereMissing(data) ==
    /\ data.t = "dict"
    /\ \/ ~HasKey(data, Key_where)
       \/ Item(data, Key_where).t = "none"
       \/ (Item(data, Key_where).t = "dict" /\ Item(data, Key_where).v = <<>>)

\* the query carries WHERE followed by a condition
HasCondition(query) ==
    LET w == IndexOf(query, SQL(" WHERE ")) IN
    /\ w # 0
    /\ w < Len(query)
    /\ query[w + 1].k = "Identifier" \/ query[w + 1] = SQL("FALSE")

\* C1: delete_sql_entry and update_sql_entry fail without executing anything
\* when where is absent, null or an empty map; every DELETE or UPDATE that is
\* executed carries a WHERE clause with at least one condition.
C1_DeleteUpdateRequireWhere ==
    /\ (/\ ReqName \in {Name_delete_sql_entry, Name_update_sql_entry}
        /\ Payload.ok
        /\ WhereMissing(Payload.val))
          => /\ Answered
             /\ ~tool_result.ok
             /\ "error" \in DOMAIN tool_result
             /\ executed = <<>>
    /\ \A i \in 1..Len(executed) :
          executed[i].query[1] \in {SQL("DELETE FROM "), SQL("UPDATE ")}
              => HasCondition(executed[i].query)

\* a delete without where was refused while table t held rows
C1_Witness ==
    /\ ReqName = Name_delete_sql_entry
    /\ Payload.ok
    /\ WhereMissing(Payload.val)
    /\ HasKey(Payload.val, Key_table)
    /\ T.v \in DOMAIN working
    /\ working[T.v].rows # <<>>
    /\ Answered
    /\ ~tool_result.ok

-----------------------------------------------------------------------------
(* C2: the transaction is over when the invocation is *)

\* C2: between invocations no transaction is open on db_connection: the last
\* one was committed or rolled back, and its cursor is closed.
C2_TransactionEndedAfterInvocation ==
    /\ conn_status = "READY"
    /\ working = committed
    /\ open_cursors = 0

-----------------------------------------------------------------------------
(* C3: concurrent requests and the transaction of db_connection *)

\* C3: a commit or rollback made for one request ends a transaction that holds
\* no statement of the other request, and once both requests are over, a
\* request that reported a successful insert has its row committed.
C3_NoTransactionSharedAcrossRequests ==
    /\ \A i \in 1..Len(log.ends) : log.ends[i].pending \subseteq {log.ends[i].by}
    /\ (\A r \in Requests : pc[r] = "done") =>
          \A r \in Requests :
             (/\ StrippedName(local[r].fc.name) = Name_insert_sql_entry
              /\ local[r].result.ok)
                => \E k \in 1..Len(committed[T.v].rows) :
                      committed[T.v].rows[k]
                          = <<Item(local[r].result.data.rows[1], Col_id)>>

-----------------------------------------------------------------------------
(* C4: the dispatcher is the error boundary *)

\* C4: no exception leaves the try block of handle_user_message; every
\* invocation ends in an envelope, a failure being exactly {ok: false, error},
\* with the message of the exception when the payload was refused, and an
\* envelope reports success only for a statement that was executed and
\* committed.
C4_DispatcherNeverRaises ==
    /\ ~escaped
    /\ Answered =>
          /\ tool_result.ok \in BOOLEAN
          /\ ~tool_result.ok => DOMAIN tool_result = {"ok", "error"}
          /\ (ReqName \in ToolNames /\ ~QueryOf(ReqName, request.content).ok)
                => /\ ~tool_result.ok
                   /\ tool_result.error.fmt = QueryOf(ReqName, request.content).msg
                   /\ executed = <<>>
          /\ tool_result.ok => (Len(executed) = 1 /\ conn_status = "READY")

\* an error of the database was turned into a failure envelope
C4_Witness ==
    /\ Answered
    /\ ~tool_result.ok
    /\ executed # <<>>
    /\ tool_result.error.fmt = "UndefinedTable"

-----------------------------------------------------------------------------
(* C5: identifiers of the statements sent *)

\* C5: every table or column name composed into a statement that is sent
\* has the form ^[A-Za-z_][A-Za-z0-9_]*$ (a name that has not makes the
\* operation fail before anything is executed).
C5_OnlyCheckedIdentifiersAreSent ==
    \A i \in 1..Len(executed) :
       \A j \in 1..Len(executed[i].query) :
          executed[i].query[j].k = "Identifier"
              => IsIdentifierString(executed[i].query[j].name)

-----------------------------------------------------------------------------
(* C6: the identifier validator *)

\* C6: _ident fails for every input that is not a string of the identifier
\* form, and for a string of that form it yields an identifier of that name.
C6_IdentAcceptsExactlyIdentifiers ==
    ret.called =>
        /\ ret.out.ok <=> (arg.t = "str" /\ IsIdentifierString(arg.v))
        /\ ret.out.ok => ret.out.val = Identifier(arg.v)

-----------------------------------------------------------------------------
(* C7: the column type fragments of create_sql_table *)

\* the letters among the characters the fragments are drawn from
Letters == Range(LowerAZ) \cup Range(UpperAZ) \cup {"U+0131", "U+00DF", "U+00E9"}

\* letters, digits, underscore, parentheses, comma and white space
AllowedInType == Letters \cup Digits \cup {"_", "(", ")", ","} \cup Whitespace

\* C7: a column type fragment that is not a string, or holds a character that
\* is no letter, digit, underscore, parenthesis, comma or white space, makes
\* create_sql_table fail with nothing executed; the fragment of a statement
\* that is executed stands in the DDL as it was given.
C7_TypeFragmentChecked ==
    Answered =>
       /\ (arg.t # "str" \/ \E i \in 1..Len(arg.v) : arg.v[i] \notin AllowedInType)
             => /\ ~tool_result.ok
                /\ executed = <<>>
                /\ working = NoTables
       /\ executed # <<>> =>
             /\ arg.t = "str"
             /\ executed[1].query
                   = <<SQL("CREATE TABLE "), SQL("IF NOT EXISTS "), Identifier(T.v),
                       SQL(" ("), Identifier(Col_id.v), SQL(" "), RawSQL(arg.v),
                       SQL(")")>>

\* a fragment holding a semicolon was refused, nothing executed
C7_Witness ==
    /\ Answered
    /\ arg.t = "str"
    /\ \E i \in 1..Len(arg.v) : arg.v[i] = ";"
    /\ ~tool_result.ok
    /\ executed = <<>>

-----------------------------------------------------------------------------
(* C8: the predicate builder *)

\* the parts of a composed query between occurrences of sep
RECURSIVE SplitOn(_, _)
SplitOn(parts, sep) ==
    IF \E i \in 1..Len(parts) : parts[i] = sep
    THEN LET i == CHOOSE k \in 1..Len(parts) :
                      parts[k] = sep /\ \A j \in 1..(k-1) : parts[j] # sep
         IN <<SubSeq(parts, 1, i - 1)>> \o SplitOn(SubSeq(parts, i + 1, Len(parts)), sep)
    ELSE <<parts>>

CountOf(parts, x) == Cardinality({i \in 1..Len(parts) : parts[i] = x})

\* the clause the predicate builder is to produce for one entry
ClauseHasForm(clause, key, val) ==
    CASE val.t = "none" ->
            clause = <<Identifier(key.v), SQL(" IS NULL")>>
      [] val.t = "list" /\ val.v = <<>> ->
            clause = <<SQL("FALSE")>>
      [] val.t = "list" /\ val.v # <<>> ->
            /\ Len(clause) = 2 * Len(val.v) + 2
            /\ clause[1] = Identifier(key.v)
            /\ clause[2] = SQL(" IN (")
            /\ clause[Len(clause)] = SQL(")")
            /\ \A i \in 1..Len(val.v) : clause[2 * i + 1] = Placeholder
            /\ \A i \in 1..(Len(val.v) - 1) : clause[2 * i + 2] = SQL(", ")
      [] OTHER ->
            clause = <<Identifier(key.v), SQL(" = "), Placeholder>>

\* the values an entry sends through the parameter list
EntryParams(val) ==
    CASE val.t = "none" -> <<>>
      [] val.t = "list" -> val.v
      [] OTHER -> <<val>>

\* C8: an empty or absent map gives an empty fragment and no parameters;
\* otherwise the fragment is WHERE, one clause per key in insertion order joined
\* by AND, each clause of the form its value calls for; the parameters are the
\* values in placeholder order, and the fragment holds no value.
C8_WhereFragmentAndParams ==
    ret.called =>
        LET out == ret.out IN
        /\ out.ok
        /\ ~Truthy(arg) => out.val = [sql |-> <<>>, params |-> <<>>]
        /\ Truthy(arg) =>
              LET n == Len(arg.v)
                  clauses == SplitOn(Tail(out.val.sql), SQL(" AND "))
              IN /\ Head(out.val.sql) = SQL(" WHERE ")
                 /\ Len(clauses) = n
                 /\ \A i \in 1..n : ClauseHasForm(clauses[i], arg.v[i][1], arg.v[i][2])
                 /\ out.val.params = Concat([i \in 1..n |-> EntryParams(arg.v[i][2])])
                 /\ CountOf(out.val.sql, Placeholder) = Len(out.val.params)
                 /\ \A i \in 1..Len(out.val.sql) :
                        out.val.sql[i].k \in {"SQL", "Identifier", "Placeholder"}

\* a map of two entries, one of them a list, went through the builder
C8_Witness ==
    /\ ret.called
    /\ arg.t = "dict"
    /\ Len(arg.v) = 2
    /\ arg.v[1][2].t = "list"
    /\ Len(arg.v[1][2].v) = 2
    /\ arg.v[2][2].t = "str"
    /\ Len(ret.out.val.params) = 3


-----------------------------------------------------------------------------
(* C9: the results follow the contents of the table *)

\* the rows of table t in db, as the dictionaries a cursor returns
RowsOf(db) ==
    IF T.v \in DOMAIN db
    THEN [i \in 1..Len(db[T.v].rows) |->
             Dict([j \in 1..Len(db[T.v].cols) |->
                      <<Str(db[T.v].cols[j]), db[T.v].rows[i][j]>>])]
    ELSE <<>>

\* the predicate map of a payload; none when where is absent or empty
WhereOf(data) ==
    IF Truthy(Get(data, Key_where, None)) THEN Get(data, Key_where, None)
    ELSE Dict(<<>>)

\* row satisfies every entry of the predicate map
Satisfies(row, where) ==
    \A k \in 1..Len(where.v) :
       /\ HasKey(row, where.v[k][1])
       /\ CASE where.v[k][2].t = "none" -> Item(row, where.v[k][1]) = None
            [] where.v[k][2].t = "list" ->
                  \E e \in 1..Len(where.v[k][2].v) :
                     Item(row, where.v[k][1]) = where.v[k][2].v[e]
            [] OTHER -> Item(row, where.v[k][1]) = where.v[k][2]

Matching(rows, where) ==
    FilterBy(rows, [i \in 1..Len(rows) |-> Satisfies(rows[i], where)])

NotMatching(rows, where) ==
    FilterBy(rows, [i \in 1..Len(rows) |-> ~Satisfies(rows[i], where)])

\* row with the values of the set map
WithValues(row, set_map) ==
    Dict([j \in 1..Len(row.v) |->
            <<row.v[j][1],
              IF HasKey(set_map, row.v[j][1]) THEN Item(set_map, row.v[j][1])
              ELSE row.v[j][2]>>])

\* row cut down to the columns asked for
Projected(row, columns) ==
    IF Truthy(columns)
    THEN Dict([j \in 1..Len(Iterate(columns)) |->
                 <<Iterate(columns)[j], Item(row, Iterate(columns)[j])>>])
    ELSE row

\* the same rows, whatever their order
SameRows(a, b) ==
    /\ Len(a) = Len(b)
    /\ \A i \in 1..Len(a) : CountOf(a, a[i]) = CountOf(b, a[i])

\* every row of a is one of b
RowsAmong(a, b) == \A i \in 1..Len(a) : CountOf(a, a[i]) <= CountOf(b, a[i])

Min(m, n) == IF m <= n THEN m ELSE n

\* the number of rows a select may return: its positive limit, if it has one
Limited(data, n) ==
    IF Get(data, Key_limit, None).t = "int" /\ Get(data, Key_limit, None).v > 0
    THEN Min(Get(data, Key_limit, None).v, n)
    ELSE n

\* what a successful insert, update or delete answers and leaves in the table
MutationTracksTable(name, data, result, before, after) ==
    LET hit == Matching(before, WhereOf(data))
        rest == NotMatching(before, WhereOf(data))
    IN CASE name = Name_insert_sql_entry ->
               /\ result.inserted = 1
               /\ Len(result.rows) = 1
               /\ \A k \in 1..Len(Item(data, Key_values).v) :
                     Item(result.rows[1], Item(data, Key_values).v[k][1])
                         = Item(data, Key_values).v[k][2]
               /\ SameRows(after, before \o result.rows)
         [] name = Name_update_sql_entry ->
               /\ result.updated = Len(hit)
               /\ SameRows(result.rows,
                           [i \in 1..Len(hit) |-> WithValues(hit[i], Item(data, Key_set))])
               /\ SameRows(after, rest \o result.rows)
         [] name = Name_delete_sql_entry ->
               /\ result.deleted = Len(hit)
               /\ SameRows(result.rows, hit)
               /\ SameRows(after, rest)

\* a select answers with every row that matches its predicate
SelectReturnsAllMatching(data, result, before, after) ==
    LET hit == Matching(before, WhereOf(data)) IN
    /\ result.count = Len(hit)
    /\ SameRows(result.rows, hit)
    /\ after = before

\* a select answers with matching rows, cut down to its columns: all of them,
\* or as many as its positive limit allows
SelectReturnsMatching(data, result, before, after) ==
    LET hit == Matching(before, WhereOf(data)) IN
    /\ result.count = Limited(data, Len(hit))
    /\ Len(result.rows) = result.count
    /\ RowsAmong(result.rows,
                 [i \in 1..Len(hit) |-> Projected(hit[i], Get(data, Key_columns, None))])
    /\ after = before

SuccessfulOn(names) ==
    /\ "ok" \in DOMAIN tool_result'
    /\ tool_result'.ok
    /\ StrippedName(request'.name) \in names

\* the end-to-end scenario on t (id INT PRIMARY KEY): each of its calls, made
\* in the state the calls before it leave, answers as listed
ScenarioPayload(pairs) == Obj(<<<<Key_table, T>>>> \o pairs)
ScenarioTable(rows) ==
    [n \in {T.v} |-> [cols |-> <<Col_id.v>>, types |-> <<"INTPK">>, rows |-> rows]]

ScenarioAnswers ==
    /\ (/\ request' = Call(Name_create_sql_table,
                           ScenarioPayload(<<<<Key_columns, One(Col_id, Str(TypeIntPk))>>>>))
        /\ working = NoTables)
          => (tool_result'.ok /\ working' = ScenarioTable(<<>>))
    /\ (/\ working = ScenarioTable(<<>>)
        /\ request' = Call(Name_insert_sql_entry,
                           ScenarioPayload(<<<<Key_values, One(Col_id, Num(1))>>>>)))
          => (/\ tool_result'.ok
              /\ tool_result'.data = [inserted |-> 1, rows |-> <<One(Col_id, Num(1))>>])
    /\ (/\ working = ScenarioTable(<<<<Num(1)>>>>)
        /\ request' = Call(Name_read_sql_entry,
                           ScenarioPayload(<<<<Key_where, One(Col_id, Num(1))>>>>)))
          => (/\ tool_result'.ok
              /\ tool_result'.data = [count |-> 1, rows |-> <<One(Col_id, Num(1))>>])
    /\ (/\ working = ScenarioTable(<<<<Num(1)>>>>)
        /\ request' = Call(Name_update_sql_entry,
                           ScenarioPayload(<<<<Key_set, One(Col_id, Num(2))>>,
                                             <<Key_where, One(Col_id, Num(1))>>>>)))
          => (/\ tool_result'.ok
              /\ tool_result'.data = [updated |-> 1, rows |-> <<One(Col_id, Num(2))>>])
    /\ (/\ working = ScenarioTable(<<<<Num(2)>>>>)
        /\ request' = Call(Name_delete_sql_entry,
                           ScenarioPayload(<<<<Key_where, One(Col_id, Num(2))>>>>)))
          => (/\ tool_result'.ok
              /\ tool_result'.data = [deleted |-> 1, rows |-> <<One(Col_id, Num(2))>>]
              /\ working' = ScenarioTable(<<>>))
    /\ (/\ working = ScenarioTable(<<>>)
        /\ request' = Call(Name_drop_sql_table, ScenarioPayload(<<>>)))
          => (tool_result'.ok /\ working' = NoTables)

\* C9 as the specification states it: every successful insert, update,
\* delete and select on t answers with the rows of t it concerns, a select
\* with all the rows matching its predicate; the scenario answers as listed.
C9_SelectReturnsEveryMatchingRow ==
    [][/\ SuccessfulOn({Name_insert_sql_entry, Name_update_sql_entry,
                        Name_delete_sql_entry})
            => MutationTracksTable(StrippedName(request'.name),
                                   _parse(request'.content).val, tool_result'.data,
                                   RowsOf(working), RowsOf(working'))
       /\ SuccessfulOn({Name_read_sql_entry})
            => SelectReturnsAllMatching(_parse(request'.content).val, tool_result'.data,
                                        RowsOf(working), RowsOf(working'))
       /\ ScenarioAnswers]_vars

\* C9: every successful insert, update and delete on t answers with the rows
\* of t it concerns and leaves t accordingly; a select answers with rows
\* matching its predicate, all of them unless a positive limit allows fewer,
\* and leaves t as it is; after each, what the connection sees is committed;
\* the scenario answers as listed.
C9_ResultsTrackTable ==
    [][/\ SuccessfulOn({Name_insert_sql_entry, Name_update_sql_entry,
                        Name_delete_sql_entry})
            => /\ MutationTracksTable(StrippedName(request'.name),
                                      _parse(request'.content).val, tool_result'.data,
                                      RowsOf(working), RowsOf(working'))
               /\ committed' = working'
       /\ SuccessfulOn({Name_read_sql_entry})
            => SelectReturnsMatching(_parse(request'.content).val, tool_result'.data,
                                     RowsOf(working), RowsOf(working'))
       /\ ScenarioAnswers]_vars

\* the delete of the scenario answered {deleted: 1, rows: [{id: 2}]} and
\* left t (id INT PRIMARY KEY) empty
C9_Witness ==
    /\ request = Call(Name_delete_sql_entry,
                      ScenarioPayload(<<<<Key_where, One(Col_id, Num(2))>>>>))
    /\ Answered
    /\ tool_result.ok
    /\ tool_result.data = [deleted |-> 1, rows |-> <<One(Col_id, Num(2))>>]
    /\ committed = ScenarioTable(<<>>)

-----------------------------------------------------------------------------
(* C10: the shape of the envelope *)

CountedTools ==
    {Name_insert_sql_entry, Name_read_sql_entry, Name_update_sql_entry,
     Name_delete_sql_entry, Name_list_tables}

CountField(name) ==
    CASE name = Name_insert_sql_entry -> {"inserted", "rows"}
      [] name = Name_read_sql_entry   -> {"count", "rows"}
      [] name = Name_update_sql_entry -> {"updated", "rows"}
      [] name = Name_delete_sql_entry -> {"deleted", "rows"}
      [] name = Name_list_tables      -> {"count", "tables"}

\* the number data carries
CountIn(data) ==
    CASE "inserted" \in DOMAIN data -> data.inserted
      [] "updated" \in DOMAIN data  -> data.updated
      [] "deleted" \in DOMAIN data  -> data.deleted
      [] OTHER                      -> data.count

\* the list data carries
ListIn(data) == IF "tables" \in DOMAIN data THEN data.tables ELSE data.rows

-----------------------------------------------------------------------------
(* C11: content that is no JSON object *)

\* content is an object: decoded beforehand, or the JSON text of one
IsObjectContent(c) ==
    \/ c.t = "dict"
    \/ c.t = "str" /\ \E p \in ObjectTexts : p[1] = c.v

\* the objects the text content c is the JSON text of
ObjectsOfText(c) == {p[2] : p \in {q \in ObjectTexts : c.t = "str" /\ q[1] = c.v}}

\* the invocation of fc fails, builds no statement and leaves the database
\* and the connection as they are
FailsBeforeAnyStatement(fc) ==
    /\ Answered'
    /\ ~tool_result'.ok
    /\ ~QueryOf(StrippedName(fc.name), fc.content).ok
    /\ executed' = <<>>
    /\ UNCHANGED <<committed, working, conn_status, open_cursors>>

\* the invocation that was made ended as the run d of the dispatcher does
SameOutcome(d) ==
    /\ tool_result' = d.result
    /\ executed' = d.sent
    /\ escaped' = d.escaped
    /\ committed' = d.conn.committed
    /\ working' = d.conn.working
    /\ conn_status' = d.conn.status
    /\ open_cursors' = d.conn.cursors

-----------------------------------------------------------------------------
(* C12: the name that selects a tool *)

\* the name as it was received; the empty name when there was none
ReceivedName(name) == IF name.t = "str" THEN name.v ELSE <<>>

\* s without the white space around it
Trimmed(s) ==
    IF \A k \in 1..Len(s) : s[k] \in Whitespace THEN <<>>
    ELSE SubSeq(s,
                CHOOSE i \in 1..Len(s) :
                   s[i] \notin Whitespace /\ \A k \in 1..(i - 1) : s[k] \in Whitespace,
                CHOOSE j \in 1..Len(s) :
                   s[j] \notin Whitespace /\ \A k \in (j + 1)..Len(s) : s[k] \in Whitespace)

\* the invocation was answered with the unknown tool envelope for name, and
\* nothing was executed
AnsweredUnknown(name) ==
    /\ ~escaped'
    /\ tool_result' = UnknownTool(name)
    /\ executed' = <<>>
    /\ UNCHANGED <<committed, working, conn_status, open_cursors>>

====
